--------------------------- MODULE OperationsList ---------------------------
(***************************************************************************)
(* The first page after the login: OperationsPage, OperationsController    *)
(* with the worker that loads the catalogue, and                           *)
(* RiskAreaSnapshotController, which takes one picture from the operational*)
(* camera to draw a risk area on (2identify_operador).                     *)
(*                                                                         *)
(* Each operation has a risk area of its own, with a geometry; its area    *)
(* stands for it.  Manuals and the enlarged picture change no state here.  *)
(***************************************************************************)
EXTENDS Naturals, Sequences

CONSTANTS Offered, NoArea, MaxPictureSignals

VARIABLES
    list,                   \* OperationsPageState; EMPTY and ERROR offer nothing
    loader,                 \* the load worker, with the answer it has posted
    selected,               \* selected_operation_id
    preview,                \* what is drawn under the area's polygon
    picture, pictureStop, pictureSignals,   \* the snapshot's camera worker
    disposed,               \* leading signals of workers disposed since
    capturing, waiting,     \* _active_risk_area_id, _pending_risk_area
    delivered,              \* _frame_delivered
    lostCapture             \* a picture was asked of a worker that had delivered
                            \* its own or was stopped for another

pictureVars == <<picture, pictureStop, pictureSignals, disposed, capturing, waiting,
                 delivered>>
listVars == <<list, loader, selected, preview, pictureVars, lostCapture>>

PictureFailures == {"failed"}

Picture == INSTANCE CameraWorker WITH
    phase <- picture, stopRequested <- pictureStop, signals <- pictureSignals,
    MaxSignals <- MaxPictureSignals, Emissions <- {<<"preview">>},
    Failures <- PictureFailures

ListInit ==
    /\ list = "not_loaded" /\ loader = "none"
    /\ selected = NoArea /\ preview = "hidden"
    /\ picture = "none" /\ pictureStop = FALSE /\ pictureSignals = <<>>
    /\ disposed = 0 /\ capturing = NoArea /\ waiting = NoArea
    /\ delivered = FALSE /\ lostCapture = FALSE

\* The window is closed and its controllers with it; no worker runs any more.
ListGone ==
    /\ list' = "not_loaded" /\ loader' = "none"
    /\ selected' = NoArea /\ preview' = "hidden"
    /\ picture' = "none" /\ pictureStop' = FALSE /\ pictureSignals' = <<>>
    /\ disposed' = 0 /\ capturing' = NoArea /\ waiting' = NoArea
    /\ delivered' = FALSE /\ lostCapture' = FALSE

\* load_operations, once, when the main window is built.
LoadOperations ==
    /\ list' = "loading" /\ loader' = "calling"
    /\ UNCHANGED <<selected, preview, pictureVars, lostCapture>>

-----------------------------------------------------------------------------
\* select_operation: the details of before go, the picture with them.
ShowDetails(op) ==
    /\ list = "ready"
    /\ selected' = op
    /\ preview' = "hidden" /\ lostCapture' = FALSE
    /\ UNCHANGED <<list, loader, pictureVars>>

\* _start_capture: from now on the signals of earlier workers are ignored.
StartCapture(op) ==
    /\ Picture!Launch
    /\ capturing' = op /\ delivered' = FALSE

BugCaptureArea ==
    IF Picture!isRunning
    THEN /\ lostCapture' = (delivered \/ pictureStop)
         /\ UNCHANGED pictureVars
    ELSE /\ StartCapture(selected)
         /\ disposed' = Len(pictureSignals)
         /\ lostCapture' = FALSE
         /\ UNCHANGED <<pictureSignals, waiting>>

CaptureArea ==
    IF Picture!isRunning
    THEN IF capturing = selected
         THEN /\ lostCapture' = (delivered \/ pictureStop)
              /\ UNCHANGED pictureVars
         ELSE /\ waiting' = selected
              /\ Picture!request_stop
              /\ lostCapture' = FALSE
              /\ UNCHANGED <<pictureSignals, disposed, capturing, delivered>>
    ELSE /\ StartCapture(selected)
         /\ disposed' = Len(pictureSignals)
         /\ lostCapture' = FALSE
         /\ UNCHANGED <<pictureSignals, waiting>>

\* request_risk_area, then capture.
RequestArea ==
    /\ selected # NoArea
    /\ preview' = "loading"
    /\ CaptureArea
    /\ UNCHANGED <<list, loader, selected>>

-----------------------------------------------------------------------------
HandleLoad ==
    /\ \/ loader = "loaded" /\ list' = "ready"
       \/ loader = "failed" /\ list' = "unavailable"
    /\ loader' = "none" /\ selected' = NoArea
    /\ preview' = "hidden" /\ lostCapture' = FALSE
    /\ UNCHANGED pictureVars

\* A picture, or word that there is none, counts once and only for its area.
Deliver(outcome) ==
    /\ delivered' = TRUE
    /\ IF selected = capturing
       THEN preview' = outcome /\ lostCapture' = FALSE
       ELSE UNCHANGED <<preview, lostCapture>>

Settled == disposed > 0 \/ delivered

\* _handle_finished of the worker the controller holds.
HandlePictureEnd ==
    /\ IF waiting # NoArea
       THEN StartCapture(waiting)
       ELSE /\ picture' = "none" /\ pictureStop' = FALSE
            /\ capturing' = NoArea /\ delivered' = FALSE
    /\ waiting' = NoArea
    /\ UNCHANGED <<preview, lostCapture>>

HandlePicture ==
    /\ pictureSignals # <<>>
    /\ pictureSignals' = Tail(pictureSignals)
    /\ disposed' = IF disposed > 0 THEN disposed - 1 ELSE 0
    /\ LET signal == Head(pictureSignals) IN
       \/ /\ signal = "preview" /\ ~Settled
          /\ Deliver("image")
          /\ Picture!request_stop
          /\ UNCHANGED <<capturing, waiting>>
       \/ /\ signal = "failed" /\ ~Settled
          /\ Deliver("failed")
          /\ UNCHANGED <<picture, pictureStop, capturing, waiting>>
       \/ /\ signal = "finished" /\ disposed = 0
          /\ HandlePictureEnd
       \/ /\ \/ signal = "ready"
             \/ signal \in {"preview", "failed"} /\ Settled
             \/ signal = "finished" /\ disposed > 0
          /\ UNCHANGED <<preview, lostCapture, picture, pictureStop, capturing, waiting,
                         delivered>>
    /\ UNCHANGED <<list, loader, selected>>

-----------------------------------------------------------------------------
\* The threads.
RunLoader ==
    /\ loader = "calling"
    /\ loader' \in {"loaded", "failed"}
    /\ UNCHANGED <<list, selected, preview, pictureVars, lostCapture>>

RunPicture ==
    /\ Picture!Run
    /\ UNCHANGED <<list, loader, selected, preview, disposed, capturing, waiting, delivered,
                   lostCapture>>

PictureRests == picture = "none" /\ pictureSignals = <<>>

ListTypeOK ==
    /\ list \in {"not_loaded", "loading", "ready", "unavailable"}
    /\ loader \in {"none", "calling", "loaded", "failed"}
    /\ {selected, capturing, waiting} \subseteq Offered \cup {NoArea}
    /\ preview \in {"hidden", "loading", "image", "failed"}
    /\ Picture!CameraTypeOK /\ disposed \in 0..Len(pictureSignals)
    /\ delivered \in BOOLEAN /\ lostCapture \in BOOLEAN

-----------------------------------------------------------------------------
CurrentSignals == {pictureSignals[i] : i \in (disposed + 1)..Len(pictureSignals)}

\* A list or a picture that is announced as being loaded is being loaded: by the
\* worker that was started for it, or by the one to come after it; a picture
\* asked again of a worker that is ending is the exception
\* (operations_controller.py, risk_area_snapshot_controller.py).
PageIsAnswered ==
    /\ list = "loading" => loader # "none"
    /\ preview = "loading" =>
           \/ lostCapture
           \/ /\ capturing = selected /\ ~delivered
              /\ \/ Picture!isRunning /\ ~pictureStop
                 \/ CurrentSignals \cap {"preview", "failed"} # {}
           \/ /\ waiting = selected
              /\ (Picture!isRunning \/ "finished" \in CurrentSignals)
=============================================================================
