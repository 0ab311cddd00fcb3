---------------------------- MODULE AlertEvents ----------------------------
(***************************************************************************)
(* What the operator, the API and the administrator say of an alert.       *)
(***************************************************************************)
EXTENDS Naturals

CONSTANT Events             \* event_ids; the operator draws one per alert

Severities == {"warning", "critical"}
Statuses == {"nao_lido", "lido", "encerrado"}
Rank(severity) ==
    CASE severity = "none" -> 0 [] severity = "warning" -> 1 [] OTHER -> 2
Progress(status) ==
    CASE status = "none" -> 0 [] status = "nao_lido" -> 1
      [] status = "lido" -> 2 [] OTHER -> 3

\* The alert.created envelope: its event_id is the one of the alert, also when
\* the alert is escalated.
Envelope(e, s) == [event |-> e, level |-> s]
=============================================================================
