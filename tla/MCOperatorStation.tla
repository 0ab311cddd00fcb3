-------------------------- MODULE MCOperatorStation --------------------------
EXTENDS OperatorStation, TLC
CONSTANTS helmet, glove, op1, op2

\* One operation asks for more than the other.
MCRequires == op1 :> {helmet} @@ op2 :> {helmet, glove}
MCFrames == {{helmet}, {helmet, glove}}
=============================================================================
