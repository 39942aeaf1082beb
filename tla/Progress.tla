------------------------------ MODULE Progress ------------------------------
(***************************************************************************)
(* The progress dialog of progress.c.  show_progress_dialog runs a GTK     *)
(* loop; the map event of the dialog starts the transfer from inside that  *)
(* loop; the transfer calls do_update, which handles GTK events in a loop  *)
(* of its own.  All of this is one thread, so what there is of concurrency *)
(* lies in the C stack: which loop handles an event, and what is below it. *)
(*                                                                         *)
(* GTK and the X server are external: the server delivers the events of    *)
(* the dialog in order, and tells of the mapping before anything the user  *)
(* can do to the window.                                                   *)
(***************************************************************************)
EXTENDS Naturals, Sequences

CONSTANTS
  MaxActs,     \* bound on what the user does to one dialog
  MaxUpdates   \* bound on the do_update calls of one transfer

ASSUME BoundsAreNat == MaxActs \in Nat /\ MaxUpdates \in Nat

VARIABLES
  stack,       \* the calls that matter, main's loop not counted
  indicator,   \* prog_cancel_indicator # NULL
  starterData, \* prog_starter_data # NULL
  running,     \* transfer_running
  looping,     \* does the loop of gtk_dialog_run go on
  visible,     \* is the dialog shown
  button,      \* is its Cancel button shown (enable_cancel)
  events,      \* events of the dialog that GTK has not handled
  left,        \* do_update calls the transfer has still to make
  flag,        \* *prog_cancel_indicator, which is cancel_wbfs_op
  broken,      \* a write through a NULL indicator, or the dialog destroyed
  \* history
  ran,         \* transfers started by this show_progress_dialog
  heard,       \* has a callback set the flag since then
  late,        \* was an end requested and no do_update ended since
  acts         \* what the user has done to this dialog

context == <<indicator, starterData, running>>
dialog  == <<looping, visible, button>>
history == <<ran, heard, late, acts>>
vars    == <<stack, context, dialog, events, left, flag, broken, history>>

Frames == {"show", "starter", "update", "error"}

\* "map": the window was mapped.  "press": the Cancel button.  "close": Esc,
\* GtkDialog's close signal.  "delete": the window manager's close button.
Events == {"map", "press", "close", "delete"}
Stops  == {"press", "close"}
Requests == Stops \cup {"delete"}

Top       == IF stack = <<>> THEN "main" ELSE stack[Len(stack)]
Push(f)   == stack' = Append(stack, f)
Pop       == stack' = SubSeq(stack, 1, Len(stack) - 1)

Init ==
  /\ stack = <<>>
  /\ indicator = FALSE /\ starterData = FALSE /\ running = FALSE
  /\ looping = FALSE /\ visible = FALSE /\ button = FALSE
  /\ events = <<>>
  /\ left = 0
  /\ flag = FALSE
  /\ broken = FALSE
  /\ ran = 0
  /\ heard = FALSE /\ late = FALSE
  /\ acts = 0

-----------------------------------------------------------------------------
(* show_progress_dialog.                                                   *)

\* Down to gtk_dialog_run, which shows the window.  The handler that calls
\* it answers an event that came after all the earlier ones of this dialog.
Show ==
  /\ stack = <<>>
  /\ ~broken
  /\ events = <<>>
  /\ Push("show")
  /\ indicator' = TRUE
  /\ starterData' = TRUE
  /\ looping' = TRUE
  /\ visible' = TRUE
  /\ button' \in BOOLEAN
  /\ events' = <<"map">>
  /\ ran' = 0
  /\ heard' = FALSE
  /\ late' = FALSE
  /\ acts' = 0
  /\ UNCHANGED <<running, left, flag, broken>>

\* prog_starter_data after the dialog has gone.
DataKept  == starterData
DataReset == FALSE

\* The loop has ended, and control is back in it.
ShowReturns ==
  /\ Top = "show"
  /\ ~looping
  /\ Pop
  /\ visible' = FALSE
  /\ indicator' = FALSE
  /\ starterData' = DataReset
  /\ UNCHANGED <<history, running, looping, button, events, left, flag, broken>>

-----------------------------------------------------------------------------
(* The loops handle one event at a time.  A loop is on top of the stack:   *)
(* main's, gtk_dialog_run's, do_update's, or that of an error message.     *)

Handling ==
  /\ ~broken
  /\ events # <<>>
  /\ Top \in {"main", "update", "error"} \/ (Top = "show" /\ looping)
  /\ events' = Tail(events)

\* May progress_dialog_map_event_cb start the transfer?
StartsAnyway == starterData
Starts       == starterData /\ ~running

\* op_add_iso and op_extract_iso begin by resetting the flag.
MapStarts ==
  /\ Handling
  /\ Head(events) = "map"
  /\ Starts
  /\ Push("starter")
  /\ running' = TRUE
  /\ flag' = FALSE
  /\ left' \in 0 .. MaxUpdates
  /\ ran' = ran + 1
  /\ UNCHANGED <<dialog, indicator, starterData, broken, heard, late, acts>>

MapIgnored ==
  /\ Handling
  /\ Head(events) = "map"
  /\ ~Starts
  /\ UNCHANGED <<stack, context, dialog, history, left, flag, broken>>

\* What progress_dialog_close_cb and progress_button_clicked_cb store.
Toggled == ~flag
Stopped == TRUE

\* Both callbacks.  Esc makes GTK end the loop of gtk_dialog_run as well.
Stop ==
  /\ Handling
  /\ Head(events) \in Stops
  /\ Top # "error"
  /\ indicator
  /\ flag' = Stopped
  /\ heard' = TRUE
  /\ looping' = (looping /\ Head(events) # "close")
  /\ UNCHANGED <<stack, context, visible, button, left, broken, ran, late, acts>>

\* The same callbacks after show_progress_dialog has reset its data.
StopIsFatal ==
  /\ Handling
  /\ Head(events) \in Stops
  /\ Top # "error"
  /\ ~indicator
  /\ broken' = TRUE
  /\ UNCHANGED <<stack, context, dialog, history, left, flag>>

\* The window manager's close button ends the loop and sets no flag.  Outside
\* gtk_dialog_run, whose handler prevents it, it destroys the dialog.
Delete ==
  /\ Handling
  /\ Head(events) = "delete"
  /\ Top # "error"
  /\ looping' = FALSE
  /\ broken' = (stack = <<>>)
  /\ UNCHANGED <<stack, context, history, visible, button, left, flag>>

\* An error message grabs the input: the dialog below it hears nothing.
Swallowed ==
  /\ Handling
  /\ Head(events) # "map"
  /\ Top = "error"
  /\ UNCHANGED <<stack, context, dialog, history, left, flag, broken>>

-----------------------------------------------------------------------------
(* The transfer.                                                           *)

\* Is there one more call of the spinner?
HasMore == left > 0

Update ==
  /\ Top = "starter"
  /\ HasMore
  /\ Push("update")
  /\ left' = left - 1
  /\ UNCHANGED <<context, dialog, history, events, flag, broken>>

\* When the loop of do_update ends: nothing is pending.
DrainedOnce == TRUE
Drained     == events = <<>>

UpdateReturns ==
  /\ Top = "update"
  /\ Drained
  /\ Pop
  /\ late' = FALSE
  /\ UNCHANGED <<context, dialog, events, left, flag, broken, ran, heard, acts>>

\* show_error from the read or write callback; the operation gives up.
ShowError ==
  /\ Top = "starter"
  /\ left > 0
  /\ Push("error")
  /\ left' = 0
  /\ UNCHANGED <<context, dialog, history, events, flag, broken>>

ErrorAnswered ==
  /\ Top = "error"
  /\ Pop
  /\ UNCHANGED <<context, dialog, history, events, left, flag, broken>>

\* Hiding the dialog ends the loop of gtk_dialog_run.
HideNothing == UNCHANGED <<visible, looping>>
Hide        == visible' = FALSE /\ looping' = FALSE

\* The starter returns: at its end, or early when a callback gave up.
StarterReturns ==
  /\ Top = "starter"
  /\ Pop
  /\ running' = FALSE
  /\ Hide
  /\ left' = 0
  /\ UNCHANGED <<history, indicator, starterData, button, events, flag, broken>>

-----------------------------------------------------------------------------
(* The user, through the X server.                                         *)

Deliver(e) ==
  /\ visible
  /\ acts < MaxActs
  /\ acts' = acts + 1
  /\ events' = Append(events, e)
  /\ late' = (late \/ e \in Requests)
  /\ UNCHANGED <<stack, context, dialog, left, flag, broken, ran, heard>>

\* Cancel, Esc, closing the window, or bringing it back after it was iconified.
UserActs == \E e \in Events : (e = "press" => button) /\ Deliver(e)

\* The user starts the program again, or goes on with what is left of it.
Restart ==
  /\ broken
  /\ broken' = FALSE
  /\ events' = <<>>
  /\ flag' = FALSE
  /\ ran' = 0
  /\ heard' = FALSE
  /\ late' = FALSE
  /\ UNCHANGED <<stack, context, dialog, left, acts>>

ProgramStep ==
  \/ ShowReturns
  \/ MapStarts \/ MapIgnored \/ Stop \/ StopIsFatal \/ Delete \/ Swallowed
  \/ Update \/ UpdateReturns \/ ShowError \/ StarterReturns

Next == Show \/ ProgramStep \/ ErrorAnswered \/ UserActs \/ Restart

Spec == Init /\ [][Next]_vars

\* The one thread goes on, and an error message is answered in the end.
FairSpec == Spec /\ WF_vars(ProgramStep) /\ WF_vars(ErrorAnswered)

-----------------------------------------------------------------------------
(* Properties.                                                             *)

Showing == stack # <<>>
InTransfer == \E i \in 1 .. Len(stack) : stack[i] = "starter"

\* The types.  A transfer makes no more do_update calls than it has.
TypeOK ==
  /\ stack \in Seq(Frames)
  /\ events \in Seq(Events)
  /\ left \in 0 .. MaxUpdates
  /\ ran \in Nat
  /\ acts \in 0 .. MaxActs
  /\ {indicator, starterData, running, looping, visible, button, flag, broken,
      heard, late} \subseteq BOOLEAN

\* The starter's data and the cancel flag's address are the caller's: it is on
\* the stack below every transfer, however late a map event is handled, and
\* the pointers are set (wbfs_gtk.c:818 keeps the data in the caller's locals).
TransferInsideCall ==
  InTransfer => Head(stack) = "show" /\ starterData /\ indicator

\* Mapping the dialog again, also from inside the transfer's own event loop,
\* starts no second transfer; and no call returns without one.
RunsOnce == [][Showing /\ ~Showing' => ran = 1]_vars

\* A request to stop that was handled is not taken back while the dialog is up:
\* not by the operation resetting the flag, nor by a second request.
StopIsKept == Showing /\ heard => flag

\* The callbacks meet the NULL indicator, or a dialog that gtk_dialog_run no
\* longer protects, only through a request made after the last do_update.
OnlyLateRequestsHurt == broken => late

\* show_progress_dialog returns, whatever the user does to the dialog, unless
\* that never ends: do_update handles events until none is waiting.
ShowEnds == Showing ~> ~Showing

-----------------------------------------------------------------------------
(* Why they hold: what the stack can be, and what each stack means.        *)

Stacks == {<<>>, <<"show">>, <<"show", "starter">>,
           <<"show", "starter", "update">>, <<"show", "starter", "error">>}

Working == stack \notin {<<>>, <<"show">>}

\* Either the dialog waits to be mapped, and hears of nothing before that, or
\* its one transfer is over.
BetweenLoops ==
  stack = <<"show">> =>
    IF looping
    THEN ran = 0 /\ ~heard /\ events # <<>> /\ Head(events) = "map"
    ELSE ran = 1

\* The inductive invariant.
Nested ==
  /\ stack \in Stacks
  /\ indicator = Showing /\ starterData = Showing
  /\ running = Working
  /\ Working => ran = 1
  /\ BetweenLoops
  /\ visible \/ looping => Showing
  /\ broken => ~Showing /\ late
  /\ StopIsKept
  /\ \A i \in 1 .. Len(events) : events[i] \in Requests => late

=============================================================================
