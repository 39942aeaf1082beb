--------------------------- MODULE ProgressProofs ---------------------------
(***************************************************************************)
(* Theorems about the progress dialog, for any number of updates and any   *)
(* number of acts of the user.                                             *)
(***************************************************************************)
EXTENDS Progress, SequenceTheorems, TLAPS

-----------------------------------------------------------------------------
(* Calls and returns on the stacks there are.                              *)

\* Every stack of the model is a sequence of frames.
LEMMA StacksAreSeqs == Stacks \subseteq Seq(Frames)
  BY DEF Stacks, Frames

\* A call puts one frame on top, and returning from it takes it off again.
LEMMA CallAndReturn ==
  ASSUME NEW s \in Seq(Frames), NEW t \in Seq(Frames), NEW f \in Frames,
         Len(t) = Len(s) + 1, t[Len(t)] = f, \A i \in 1 .. Len(s) : t[i] = s[i]
  PROVE  Append(s, f) = t /\ SubSeq(t, 1, Len(s)) = s
<1>1. Append(s, f) \in Seq(Frames) /\ Len(Append(s, f)) = Len(t)
  OBVIOUS
<1>2. Append(s, f) = t
  <2>1. \A i \in 1 .. Len(Append(s, f)) : Append(s, f)[i] = t[i]
    OBVIOUS
  <2> QED
    BY <1>1, <2>1, SeqEqual
<1>3. SubSeq(t, 1, Len(s)) = s
  <2>1. /\ SubSeq(t, 1, Len(s)) \in Seq(Frames)
        /\ Len(SubSeq(t, 1, Len(s))) = Len(s)
        /\ \A i \in 1 .. Len(s) : SubSeq(t, 1, Len(s))[i] = t[i]
    <3>1. \A i \in 1 .. Len(s) : t[i] \in Frames
      BY ElementOfSeq
    <3> QED
      BY <3>1, SubSeqProperties
  <2> QED
    BY <2>1, SeqEqual
<1> QED
  BY <1>2, <1>3

\* The calls of the program and its returns.
LEMMA Links ==
  /\ Append(<<>>, "show") = <<"show">>
  /\ SubSeq(<<"show">>, 1, 0) = <<>>
  /\ Append(<<"show">>, "starter") = <<"show", "starter">>
  /\ SubSeq(<<"show", "starter">>, 1, 1) = <<"show">>
  /\ Append(<<"show", "starter">>, "update") = <<"show", "starter", "update">>
  /\ SubSeq(<<"show", "starter", "update">>, 1, 2) = <<"show", "starter">>
  /\ Append(<<"show", "starter">>, "error") = <<"show", "starter", "error">>
  /\ SubSeq(<<"show", "starter", "error">>, 1, 2) = <<"show", "starter">>
<1>1. /\ <<>> \in Seq(Frames) /\ <<"show">> \in Seq(Frames)
      /\ <<"show", "starter">> \in Seq(Frames)
      /\ <<"show", "starter", "update">> \in Seq(Frames)
      /\ <<"show", "starter", "error">> \in Seq(Frames)
  BY StacksAreSeqs DEF Stacks
<1>2. {"show", "starter", "update", "error"} \subseteq Frames
  BY DEF Frames
<1>3. /\ Append(<<>>, "show") = <<"show">>
      /\ SubSeq(<<"show">>, 1, 0) = <<>>
  <2> DEFINE s == <<>>
             t == <<"show">>
  <2>1. s \in Seq(Frames) /\ t \in Seq(Frames) /\ t[Len(t)] \in Frames
    BY <1>1, <1>2
  <2>2. Len(t) = Len(s) + 1 /\ \A i \in 1 .. Len(s) : t[i] = s[i]
    OBVIOUS
  <2>3. t[Len(t)] = t[1] /\ Len(s) = 0
    OBVIOUS
  <2> HIDE DEF s, t
  <2>4. Append(s, t[Len(t)]) = t /\ SubSeq(t, 1, Len(s)) = s
    BY <2>1, <2>2, CallAndReturn
  <2> QED
    BY <2>3, <2>4 DEF s, t
<1>4. /\ Append(<<"show">>, "starter") = <<"show", "starter">>
      /\ SubSeq(<<"show", "starter">>, 1, 1) = <<"show">>
  <2> DEFINE s == <<"show">>
             t == <<"show", "starter">>
  <2>1. s \in Seq(Frames) /\ t \in Seq(Frames) /\ t[Len(t)] \in Frames
    BY <1>1, <1>2
  <2>2. Len(t) = Len(s) + 1 /\ \A i \in 1 .. Len(s) : t[i] = s[i]
    OBVIOUS
  <2>3. t[Len(t)] = t[2] /\ Len(s) = 1
    OBVIOUS
  <2> HIDE DEF s, t
  <2>4. Append(s, t[Len(t)]) = t /\ SubSeq(t, 1, Len(s)) = s
    BY <2>1, <2>2, CallAndReturn
  <2> QED
    BY <2>3, <2>4 DEF s, t
<1>5. /\ Append(<<"show", "starter">>, "update") = <<"show", "starter", "update">>
      /\ SubSeq(<<"show", "starter", "update">>, 1, 2) = <<"show", "starter">>
  <2> DEFINE s == <<"show", "starter">>
             t == <<"show", "starter", "update">>
  <2>1. s \in Seq(Frames) /\ t \in Seq(Frames) /\ t[Len(t)] \in Frames
    BY <1>1, <1>2
  <2>2. Len(t) = Len(s) + 1 /\ \A i \in 1 .. Len(s) : t[i] = s[i]
    OBVIOUS
  <2>3. t[Len(t)] = t[3] /\ Len(s) = 2
    OBVIOUS
  <2> HIDE DEF s, t
  <2>4. Append(s, t[Len(t)]) = t /\ SubSeq(t, 1, Len(s)) = s
    BY <2>1, <2>2, CallAndReturn
  <2> QED
    BY <2>3, <2>4 DEF s, t
<1>6. /\ Append(<<"show", "starter">>, "error") = <<"show", "starter", "error">>
      /\ SubSeq(<<"show", "starter", "error">>, 1, 2) = <<"show", "starter">>
  <2> DEFINE s == <<"show", "starter">>
             t == <<"show", "starter", "error">>
  <2>1. s \in Seq(Frames) /\ t \in Seq(Frames) /\ t[Len(t)] \in Frames
    BY <1>1, <1>2
  <2>2. Len(t) = Len(s) + 1 /\ \A i \in 1 .. Len(s) : t[i] = s[i]
    OBVIOUS
  <2>3. t[Len(t)] = t[3] /\ Len(s) = 2
    OBVIOUS
  <2> HIDE DEF s, t
  <2>4. Append(s, t[Len(t)]) = t /\ SubSeq(t, 1, Len(s)) = s
    BY <2>1, <2>2, CallAndReturn
  <2> QED
    BY <2>3, <2>4 DEF s, t
<1> QED
  BY <1>3, <1>4, <1>5, <1>6

\* What is on top of each stack.
LEMMA Tops ==
  ASSUME stack \in Stacks
  PROVE  /\ Top = "main" => stack = <<>>
         /\ Top = "show" => stack = <<"show">> /\ Len(stack) = 1
         /\ Top = "starter" => stack = <<"show", "starter">> /\ Len(stack) = 2
         /\ Top = "update" => stack = <<"show", "starter", "update">> /\ Len(stack) = 3
         /\ Top = "error" => stack = <<"show", "starter", "error">> /\ Len(stack) = 3
  BY DEF Stacks, Top

-----------------------------------------------------------------------------
(* Types.                                                                  *)

\* The types hold and are kept: a stack of frames, a queue of events, counters
\* within their bounds.
THEOREM TypeCorrect == Spec => []TypeOK
<1>1. Init => TypeOK
  <2>1. Init => {indicator, starterData, running, looping, visible, button, flag, broken,
                heard, late} \subseteq BOOLEAN
    BY DEF Init
  <2>2. Init => stack \in Seq(Frames) /\ events \in Seq(Events)
    BY DEF Init
  <2> QED
    BY <2>1, <2>2, BoundsAreNat DEF Init, TypeOK
<1>2. TypeOK /\ [Next]_vars => TypeOK'
  <2> SUFFICES ASSUME TypeOK, [Next]_vars PROVE TypeOK'
    OBVIOUS
  <2> USE BoundsAreNat
  <2>1. CASE Show
    <3>1. stack' \in Seq(Frames) /\ events' \in Seq(Events)
      BY <2>1 DEF Show, Push, TypeOK, Frames, Events
    <3>2. {indicator, starterData, running, looping, visible, button, flag, broken,
          heard, late}' \subseteq BOOLEAN
      BY <2>1 DEF Show, TypeOK
    <3> QED
      BY <2>1, <3>1, <3>2 DEF Show, TypeOK
  <2>2. ASSUME Pop PROVE stack' \in Seq(Frames)
    BY <2>2, ElementOfSeq, SubSeqProperties DEF Pop, TypeOK
  <2>3. ASSUME Handling PROVE events' \in Seq(Events)
    BY <2>3 DEF Handling, TypeOK
  <2>4. CASE ShowReturns
    BY <2>4, <2>2 DEF ShowReturns, DataReset, TypeOK, history
  <2>5. CASE MapStarts
    <3>1. stack' \in Seq(Frames)
      BY <2>5 DEF MapStarts, Push, TypeOK, Frames
    <3>2. {indicator, starterData, running, looping, visible, button, flag, broken,
          heard, late}' \subseteq BOOLEAN
      BY <2>5 DEF MapStarts, TypeOK, dialog
    <3> QED
      BY <2>5, <2>3, <3>1, <3>2 DEF MapStarts, TypeOK, dialog
  <2>6. CASE MapIgnored
    BY <2>6, <2>3 DEF MapIgnored, TypeOK, context, dialog, history
  <2>7. CASE Stop
    BY <2>7, <2>3 DEF Stop, Stopped, TypeOK, context
  <2>8. CASE StopIsFatal
    BY <2>8, <2>3 DEF StopIsFatal, TypeOK, context, dialog, history
  <2>9. CASE Delete
    BY <2>9, <2>3 DEF Delete, TypeOK, context, history
  <2>10. CASE Swallowed
    BY <2>10, <2>3 DEF Swallowed, TypeOK, context, dialog, history
  <2>11. CASE Update
    <3>1. stack' \in Seq(Frames)
      BY <2>11 DEF Update, Push, TypeOK, Frames
    <3> QED
      BY <2>11, <3>1 DEF Update, HasMore, TypeOK, context, dialog, history
  <2>12. CASE UpdateReturns
    BY <2>12, <2>2 DEF UpdateReturns, TypeOK, context, dialog
  <2>13. CASE ShowError
    <3>1. stack' \in Seq(Frames)
      BY <2>13 DEF ShowError, Push, TypeOK, Frames
    <3> QED
      BY <2>13, <3>1 DEF ShowError, TypeOK, context, dialog, history
  <2>14. CASE StarterReturns
    <3>1. {indicator, starterData, running, looping, visible, button, flag, broken,
          heard, late}' \subseteq BOOLEAN
      BY <2>14 DEF StarterReturns, Hide, TypeOK, history
    <3> QED
      BY <2>14, <2>2, <3>1 DEF StarterReturns, Hide, TypeOK, history
  <2>15. CASE ErrorAnswered
    BY <2>15, <2>2 DEF ErrorAnswered, TypeOK, context, dialog, history
  <2>16. CASE UserActs
    BY <2>16 DEF UserActs, Deliver, TypeOK, context, dialog
  <2>17. CASE Restart
    <3>1. {indicator, starterData, running, looping, visible, button, flag, broken,
          heard, late}' \subseteq BOOLEAN
      BY <2>17 DEF Restart, TypeOK, context, dialog
    <3> QED
      BY <2>17, <3>1 DEF Restart, TypeOK, context, dialog
  <2>18. CASE UNCHANGED vars
    BY <2>18 DEF vars, context, dialog, history, TypeOK
  <2> QED
    BY <2>1, <2>4, <2>5, <2>6, <2>7, <2>8, <2>9, <2>10, <2>11, <2>12, <2>13,
       <2>14, <2>15, <2>16, <2>17, <2>18 DEF Next, ProgramStep
<1> QED
  BY <1>1, <1>2, PTL DEF Spec

-----------------------------------------------------------------------------
(* The stack and what it stands for.                                       *)

\* Handling the first event leaves the other requests, and adding an event
\* adds at most its own: late goes on covering them.
LEMMA LateCovers ==
  ASSUME TypeOK, \A i \in 1 .. Len(events) : events[i] \in Requests => late
  PROVE  /\ events # <<>> => /\ Head(events) \in Requests => late
                             /\ \A i \in 1 .. Len(Tail(events)) :
                                  Tail(events)[i] \in Requests => late
         /\ \A e \in Events : \A i \in 1 .. Len(Append(events, e)) :
              Append(events, e)[i] \in Requests => late \/ e \in Requests
<1>1. events \in Seq(Events)
  BY DEF TypeOK
<1>2. ASSUME events # <<>>
      PROVE  /\ Head(events) \in Requests => late
             /\ \A i \in 1 .. Len(Tail(events)) : Tail(events)[i] \in Requests => late
  BY <1>1, <1>2, HeadTailProperties
<1>3. ASSUME NEW e \in Events
      PROVE  \A i \in 1 .. Len(Append(events, e)) :
               Append(events, e)[i] \in Requests => late \/ e \in Requests
  BY <1>1
<1> QED
  BY <1>2, <1>3

\* Every step keeps the stack one of the five, with what each means.
LEMMA NestedStep == TypeOK /\ TypeOK' /\ Nested /\ [Next]_vars => Nested'
<1> SUFFICES ASSUME TypeOK, TypeOK', Nested, [Next]_vars PROVE Nested'
  OBVIOUS
<1> USE DEF Showing, Working, BetweenLoops, StopIsKept
<1>1. stack \in Stacks
  BY DEF Nested
<1>2. CASE Show
  <2>1. stack = <<>> /\ stack' = <<"show">>
    BY <1>2, Links DEF Show, Push
  <2>2. /\ stack' \in Stacks /\ stack' # <<>>
        /\ events' = <<"map">> /\ looping' /\ visible' /\ ran' = 0 /\ ~heard'
        /\ indicator' /\ starterData' /\ running' = running /\ broken' = broken
    BY <1>2, <2>1 DEF Show, Stacks
  <2>3. Working' = FALSE /\ running = FALSE
    BY <2>1 DEF Nested
  <2>4. \A i \in 1 .. Len(events') : events'[i] \in Requests => late'
    BY <2>2 DEF Requests, Stops
  <2>5. BetweenLoops' /\ StopIsKept'
    BY <2>1, <2>2
  <2>6. indicator' = Showing' /\ starterData' = Showing' /\ running' = Working'
    BY <1>2, <2>2, <2>3 DEF Show
  <2>7. ~broken'
    BY <1>2 DEF Show
  <2> QED
    BY <2>2, <2>3, <2>4, <2>5, <2>6, <2>7 DEF Nested
<1>3. CASE ShowReturns
  <2>1. stack = <<"show">> /\ stack' = <<>>
    BY <1>1, <1>3, Tops, Links DEF ShowReturns, Pop
  <2> QED
    BY <1>3, <2>1 DEF ShowReturns, DataReset, Nested, Stacks, history
<1>4. ASSUME Handling
      PROVE  /\ ~broken
             /\ \A i \in 1 .. Len(events') : events'[i] \in Requests => late
             /\ Head(events) \in Requests => late
             /\ Top = "show" => Head(events) = "map"
             /\ stack = <<"show">> => Top = "show"
  BY <1>1, <1>4, LateCovers, Tops DEF Handling, Nested, Top
<1>5. CASE MapStarts
  <2>1. stack = <<"show">> /\ stack' = <<"show", "starter">>
    BY <1>1, <1>5, Links DEF MapStarts, Starts, Push, Nested, Stacks
  <2>2. Showing' /\ Working' /\ stack' \in Stacks /\ ran = 0 /\ ~heard
    BY <1>5, <2>1 DEF MapStarts, Handling, Top, Nested, Stacks
  <2>3. indicator' = Showing' /\ starterData' = Showing' /\ running' = Working'
    BY <1>5, <2>1, <2>2 DEF MapStarts, Nested
  <2> QED
    BY <1>4, <1>5, <2>1, <2>2, <2>3 DEF MapStarts, Nested, dialog
<1>6. CASE MapIgnored
  BY <1>4, <1>6 DEF MapIgnored, Starts, Nested, Stacks, context, dialog, history
<1>7. CASE Stop
  BY <1>4, <1>7 DEF Stop, Stopped, Stops, Nested, Stacks, context
<1>8. CASE StopIsFatal
  BY <1>4, <1>8 DEF StopIsFatal, Stops, Requests, Nested, Stacks, context, dialog, history
<1>9. CASE Delete
  BY <1>4, <1>9 DEF Delete, Requests, Nested, Stacks, context, history
<1>10. CASE Swallowed
  BY <1>4, <1>10 DEF Swallowed, Nested, Stacks, context, dialog, history
<1>11. CASE Update
  <2>1. stack = <<"show", "starter">> /\ stack' = <<"show", "starter", "update">>
    BY <1>1, <1>11, Tops, Links DEF Update, Push
  <2> QED
    BY <1>11, <2>1 DEF Update, Nested, Stacks, context, dialog, history
<1>12. CASE UpdateReturns
  <2>1. /\ stack = <<"show", "starter", "update">> /\ stack' = <<"show", "starter">>
        /\ events' = <<>>
    BY <1>1, <1>12, Tops, Links DEF UpdateReturns, Drained, Pop
  <2> QED
    BY <1>12, <2>1 DEF UpdateReturns, Nested, Stacks, context, dialog
<1>13. CASE ShowError
  <2>1. stack = <<"show", "starter">> /\ stack' = <<"show", "starter", "error">>
    BY <1>1, <1>13, Tops, Links DEF ShowError, Push
  <2> QED
    BY <1>13, <2>1 DEF ShowError, Nested, Stacks, context, dialog, history
<1>14. CASE StarterReturns
  <2>1. stack = <<"show", "starter">> /\ stack' = <<"show">>
    <3>1. stack = <<"show", "starter">> /\ Len(stack) = 2
      BY <1>1, <1>14, Tops DEF StarterReturns
    <3> QED
      BY <1>14, <3>1, Links DEF StarterReturns, Pop
  <2> QED
    BY <1>14, <2>1 DEF StarterReturns, Hide, Nested, Stacks, history
<1>15. CASE ErrorAnswered
  <2>1. stack = <<"show", "starter", "error">> /\ stack' = <<"show", "starter">>
    BY <1>1, <1>15, Tops, Links DEF ErrorAnswered, Pop
  <2> QED
    BY <1>15, <2>1 DEF ErrorAnswered, Nested, Stacks, context, dialog, history
<1>16. CASE UserActs
  <2> PICK e \in Events : Deliver(e)
    BY <1>16 DEF UserActs
  <2>1. \A i \in 1 .. Len(events') : events'[i] \in Requests => late'
    BY LateCovers DEF Deliver, Nested
  <2>2. events # <<>> => events' # <<>> /\ Head(events') = Head(events)
    BY DEF Deliver, TypeOK
  <2> QED
    BY <2>1, <2>2 DEF Deliver, Nested, Stacks, context, dialog
<1>17. CASE Restart
  BY <1>17 DEF Restart, Nested, Stacks, context, dialog
<1>18. CASE UNCHANGED vars
  BY <1>18 DEF vars, context, dialog, history, Nested
<1> QED
  BY <1>2, <1>3, <1>5, <1>6, <1>7, <1>8, <1>9, <1>10, <1>11, <1>12, <1>13,
     <1>14, <1>15, <1>16, <1>17, <1>18 DEF Next, ProgramStep

\* The loops nest as they should in every reachable state: five stacks, the
\* pointers set exactly while the call is on the stack, one transfer in it.
THEOREM NestedAlways == Spec => []Nested
<1>1. Init => Nested
  <2> SUFFICES ASSUME Init PROVE Nested
    OBVIOUS
  <2>1. ~Showing /\ ~Working /\ stack \in Stacks /\ stack # <<"show">>
    BY DEF Init, Showing, Working, Stacks
  <2>2. indicator = Showing /\ starterData = Showing /\ running = Working
    BY <2>1 DEF Init, Showing, Working
  <2>3. \A i \in 1 .. Len(events) : events[i] \in Requests => late
    BY DEF Init
  <2> QED
    BY <2>1, <2>2, <2>3 DEF Init, Nested, BetweenLoops, StopIsKept
<1>2. Spec => []TypeOK
  BY TypeCorrect
<1> QED
  BY <1>1, <1>2, NestedStep, PTL DEF Spec

-----------------------------------------------------------------------------
(* What follows.                                                           *)

\* A transfer runs only inside the call whose data it works on, however late
\* a map event is handled.
THEOREM AlwaysInsideCall == Spec => []TransferInsideCall
<1>1. TypeOK /\ Nested => TransferInsideCall
  <2> SUFFICES ASSUME Nested, InTransfer
               PROVE  Head(stack) = "show" /\ starterData /\ indicator
    BY DEF TransferInsideCall
  <2>1. stack # <<>>
    BY DEF InTransfer
  <2>2. Head(stack) = "show"
    BY <2>1 DEF Nested, Stacks
  <2> QED
    BY <2>1, <2>2 DEF Nested, Showing
<1> QED
  BY <1>1, TypeCorrect, NestedAlways, PTL

\* Each call of show_progress_dialog has run its transfer once when it returns.
THEOREM RunsExactlyOnce == Spec => RunsOnce
<1>1. Nested /\ [Next]_vars => [Showing /\ ~Showing' => ran = 1]_vars
  <2> SUFFICES ASSUME Nested, Next, Showing, ~Showing' PROVE ran = 1
    BY DEF Showing, vars
  <2>1. stack # <<>> /\ stack' = <<>> /\ stack \in Stacks
    BY DEF Showing, Nested
  <2>2. CASE ShowReturns
    <3>1. stack = <<"show">> /\ ~looping
      BY <2>1, <2>2, Tops DEF ShowReturns
    <3> QED
      BY <3>1 DEF Nested, BetweenLoops
  <2>3. CASE UpdateReturns \/ StarterReturns \/ ErrorAnswered
    <3>1. stack # <<"show">>
      BY <2>3 DEF UpdateReturns, StarterReturns, ErrorAnswered, Top
    <3> QED
      BY <2>1, <3>1 DEF Nested, Working
  <2>4. CASE MapStarts \/ Update \/ ShowError \/ Show
    BY <2>1, <2>4, StacksAreSeqs DEF MapStarts, Update, ShowError, Show, Push, Frames
  <2>5. CASE MapIgnored \/ Stop \/ StopIsFatal \/ Delete \/ Swallowed \/ UserActs
             \/ Restart
    BY <2>1, <2>5 DEF MapIgnored, Stop, StopIsFatal, Delete, Swallowed, UserActs,
       Deliver, Restart
  <2> QED
    BY <2>2, <2>3, <2>4, <2>5 DEF Next, ProgramStep
<1> QED
  BY <1>1, NestedAlways, PTL DEF Spec, RunsOnce

\* A stop that was heard stays set until the dialog is gone.
THEOREM StopsAreKept == Spec => []StopIsKept
<1>1. Nested => StopIsKept
  BY DEF Nested
<1> QED
  BY <1>1, NestedAlways, PTL

\* Without a request after the last do_update, no callback meets a NULL
\* pointer and the dialog is not destroyed.
THEOREM OnlyLateRequests == Spec => []OnlyLateRequestsHurt
<1>1. Nested => OnlyLateRequestsHurt
  BY DEF Nested, OnlyLateRequestsHurt
<1> QED
  BY <1>1, NestedAlways, PTL

=============================================================================
