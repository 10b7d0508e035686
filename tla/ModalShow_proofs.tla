---------------------------- MODULE ModalShow_proofs ----------------------------
(***************************************************************************)
(* A dialog that no other overlaps answers its own caller and is in sight, *)
(* and however calls overlap a tap lets no more than one of them return:   *)
(* theorems of module ModalShow, for any calls of the two threads.         *)
(***************************************************************************)
EXTENDS ModalShow, FiniteSetTheorems, TLAPS

USE CallsAssumption

LEMMA ModalType == ModalTypeOK /\ [Next]_vars => ModalTypeOK'
<1> SUFFICES ASSUME ModalTypeOK, [Next]_vars PROVE ModalTypeOK'
  OBVIOUS
<1> USE DEF ModalTypeOK, callVars, semVars, screen, history, Phases
<1>0. WebCalls \subseteq Calls /\ MainCalls \subseteq Calls
  BY DEF Calls
<1>1. ASSUME NEW c \in Calls, NewSemaphore(c) PROVE /\ semaphore' \in Calls \cup {NoCall}
                                                   /\ value' \in [Calls -> Nat]
                                                   /\ crashed' \in BOOLEAN
  BY <1>1 DEF NewSemaphore
<1>2. ASSUME NEW c \in Calls, Begins(c) PROVE ModalTypeOK'
  <2>1. queue' \in Seq(Calls \cup {"back", "front"})
    BY <1>2 DEF Begins
  <2>2. overlapped' \in BOOLEAN
    BY <1>2 DEF Begins
  <2> QED
    BY <1>2, <2>1, <2>2 DEF Begins
<1>3. ASSUME NEW c \in Calls, WebPresents(c) \/ WebSubmits(c) PROVE ModalTypeOK'
  <2>1. CASE WebPresents(c)
    BY <1>1, <2>1 DEF WebPresents
  <2>2. CASE WebSubmits(c)
    BY <2>2 DEF WebSubmits
  <2> QED
    BY <1>3, <2>1, <2>2
<1>11. ASSUME NEW c \in MainCalls, MainPresents(c) PROVE ModalTypeOK'
  <2>1. stack' \in Seq(MainCalls)
    BY <1>11 DEF MainPresents
  <2> QED
    BY <1>0, <1>1, <1>11, <2>1 DEF MainPresents, Shown
<1>4. ASSUME NEW c \in WebCalls, WebWaits(c) PROVE ModalTypeOK'
  BY <1>0, <1>4 DEF WebWaits
<1>5. CASE MainQueue
  <2>1. queue' \in Seq(Calls \cup {"back", "front"})
    BY <1>5 DEF MainQueue
  <2> QED
    BY <1>5, <2>1 DEF MainQueue, Shown
<1>6. CASE Tapped
  <2>1. CASE semaphore \in Calls
    BY <1>6, <2>1 DEF Tapped, Dismiss
  <2>2. CASE semaphore \notin Calls
    BY <1>6, <2>2 DEF Tapped, Dismiss
  <2> QED
    BY <2>1, <2>2
<1>7. ASSUME NEW s \in Calls \cup {NoCall}, TakeSignal(s) PROVE value' \in [Calls -> Nat]
  <2>1. CASE s \in Calls
    BY <1>7, <2>1 DEF TakeSignal
  <2>2. CASE s \notin Calls
    BY <1>7, <2>2 DEF TakeSignal
  <2> QED
    BY <2>1, <2>2
<1>8. ASSUME NEW c \in WebCalls, WebReturns(c) PROVE ModalTypeOK'
  BY <1>0, <1>7, <1>8 DEF WebReturns, Returns
<1>9. CASE MainReturns
  <2>1. Len(stack) \in 1 .. Len(stack) /\ stack[Len(stack)] \in MainCalls
    BY <1>9 DEF MainReturns
  <2>2. stack' \in Seq(MainCalls)
    BY <1>9, <2>1 DEF MainReturns
  <2> QED
    BY <1>0, <1>7, <1>9, <2>1, <2>2 DEF MainReturns, Returns
<1>10. CASE UNCHANGED vars
  BY <1>10 DEF vars
<1> QED
  BY <1>0, <1>2, <1>3, <1>4, <1>5, <1>6, <1>8, <1>9, <1>10, <1>11
  DEF Next, Callers, Threads, WebBegins, MainBegins

-----------------------------------------------------------------------------
(* One call at a time *)

(* The call in progress makes the semaphore, and its thread waits for it.  *)
OneCall ==
  /\ \A c, d \in InProgress : c = d
  /\ \A c \in InProgress : phase[c] # "begun" => c = semaphore
  /\ \A c \in WebCalls : phase[c] = "waiting" => waitsOn = c
  /\ Len(stack) <= 1 /\ \A n \in DOMAIN stack : phase[stack[n]] = "waiting"

(* Its dialog waits in the queue, is on the screen or was closed, and the  *)
(* semaphore has a signal only after that.                                 *)
Asking == {c \in Calls : phase[c] \in {"called", "waiting"}}
OneDialog ==
  /\ dialog # NoCall => dialog \in Asking /\ dialog \notin dismissed
  /\ \A n \in DOMAIN queue : queue[n] \in Calls =>
       queue[n] \in Asking /\ queue[n] \notin dismissed /\ queue[n] # dialog
  /\ \A m, n \in DOMAIN queue : queue[m] \in Calls /\ queue[m] = queue[n] => m = n
  /\ \A c \in Calls : value[c] > 0 => c \in dismissed
  /\ \A c \in Calls : phase[c] \in {"new", "begun", "made"} => c \notin dismissed
  /\ Returned \subseteq dismissed

AloneInv == ModalTypeOK /\ (~overlapped => OneCall /\ OneDialog)

LEMMA InitAlone == Init => AloneInv
<1> SUFFICES ASSUME Init PROVE AloneInv
  OBVIOUS
<1>1. ModalTypeOK
  <2>1. stack \in Seq(MainCalls) /\ queue \in Seq(Calls \cup {"back", "front"})
    BY DEF Init
  <2>2. phase \in [Calls -> Phases] /\ value \in [Calls -> Nat]
    BY DEF Init, Phases
  <2> QED
    BY <2>1, <2>2 DEF Init, ModalTypeOK
<1>2. OneCall /\ OneDialog
  BY DEF Init, OneCall, OneDialog, InProgress, Asking, Returned, Calls
<1> QED
  BY <1>1, <1>2 DEF AloneInv

(* Before a call has a dialog, there is none on the screen or in the queue. *)
LEMMA NoneAsked ==
  ASSUME AloneInv, ~overlapped, Asking = {}
  PROVE  /\ dialog = NoCall /\ stack = <<>>
         /\ \A n \in DOMAIN queue : queue[n] \notin Calls
<1>1. OneCall /\ OneDialog
  BY DEF AloneInv
<1>2. dialog = NoCall /\ \A n \in DOMAIN queue : queue[n] \notin Calls
  BY <1>1 DEF OneDialog
<1>3. Len(stack) = 0
  <2>1. stack \in Seq(MainCalls)
    BY DEF AloneInv, ModalTypeOK
  <2>2. 1 \notin DOMAIN stack
    BY <1>1, <2>1 DEF OneCall, Asking, Calls
  <2> QED
    BY <2>1, <2>2
<1> QED
  BY <1>2, <1>3 DEF AloneInv, ModalTypeOK

LEMMA BeginsAlone ==
  ASSUME AloneInv, ModalTypeOK', ~overlapped', NEW c \in Calls, Begins(c)
  PROVE  OneCall' /\ OneDialog'
<1> USE DEF AloneInv, ModalTypeOK, Phases
<1>1. /\ phase[c] = "new" /\ InProgress = {} /\ ~overlapped
      /\ phase' = [phase EXCEPT ![c] = "begun"] /\ queue' = Append(queue, "back")
      /\ UNCHANGED <<waitsOn, stack, semaphore, value, dialog, dismissed>>
  BY DEF Begins, semVars, screen
<1>2. OneCall /\ OneDialog /\ Asking = {}
  BY <1>1 DEF InProgress, Asking
<1>3. dialog = NoCall /\ stack = <<>> /\ \A n \in DOMAIN queue : queue[n] \notin Calls
  BY <1>1, <1>2, NoneAsked
<1>4. InProgress' = {c} /\ Asking' = {} /\ Returned' = Returned
  BY <1>1, <1>2 DEF InProgress, Asking, Returned
<1>5. \A n \in DOMAIN queue' : queue'[n] \notin Calls
  BY <1>1, <1>3, SMTT(30)
<1>6. OneCall'
  <2>1. \A d \in WebCalls : phase'[d] # "waiting"
    BY <1>4 DEF Asking, Calls
  <2> QED
    BY <1>1, <1>3, <1>4, <2>1 DEF OneCall
<1>7. OneDialog'
  BY <1>1, <1>2, <1>3, <1>4, <1>5 DEF OneDialog
<1> QED
  BY <1>6, <1>7

LEMMA PresentsAlone ==
  ASSUME AloneInv, ModalTypeOK', ~overlapped', NEW c \in Calls,
         WebPresents(c) \/ (c \in MainCalls /\ MainPresents(c))
  PROVE  OneCall' /\ OneDialog'
<1> USE DEF AloneInv, ModalTypeOK, Phases
<1>1. /\ phase[c] = "begun" /\ ~overlapped
      /\ semaphore' = c /\ value' = [value EXCEPT ![c] = 0]
      /\ UNCHANGED <<waitsOn, queue, dismissed>>
  BY DEF WebPresents, MainPresents, NewSemaphore, history
<1>2. OneCall /\ OneDialog
  BY <1>1
<1>3. InProgress = {c} /\ Asking = {}
  BY <1>1, <1>2 DEF OneCall, InProgress, Asking
<1>4. dialog = NoCall /\ stack = <<>> /\ \A n \in DOMAIN queue : queue[n] \notin Calls
  BY <1>1, <1>3, NoneAsked
<1>5. \A d \in Calls : value'[d] > 0 => d \in dismissed'
  BY <1>1, <1>2 DEF OneDialog
<1>6. CASE WebPresents(c)
  <2>1. phase' = [phase EXCEPT ![c] = "made"] /\ UNCHANGED <<stack, dialog>>
    BY <1>6 DEF WebPresents, screen
  <2>2. InProgress' = {c} /\ Asking' = {} /\ Returned' = Returned
    BY <1>1, <1>3, <2>1 DEF InProgress, Asking, Returned
  <2>3. OneCall'
    <3>1. \A d \in WebCalls : phase'[d] # "waiting"
      BY <2>2 DEF Asking, Calls
    <3> QED
      BY <1>1, <1>4, <2>1, <2>2, <3>1 DEF OneCall
  <2>4. OneDialog'
    BY <1>1, <1>2, <1>4, <1>5, <2>1, <2>2 DEF OneDialog
  <2> QED
    BY <2>3, <2>4
<1>7. CASE c \in MainCalls /\ MainPresents(c)
  <2>1. phase' = [phase EXCEPT ![c] = "waiting"] /\ dialog' = c /\ stack' = <<c>>
    BY <1>4, <1>7 DEF MainPresents, Shown
  <2>2. InProgress' = {c} /\ Asking' = {c} /\ Returned' = Returned
    BY <1>1, <1>3, <2>1 DEF InProgress, Asking, Returned
  <2>3. OneCall'
    <3>1. \A d \in WebCalls : phase'[d] # "waiting"
      BY <1>7, <2>2, CallsAssumption DEF Asking, Calls
    <3> QED
      BY <1>1, <2>1, <2>2, <3>1 DEF OneCall
  <2>4. OneDialog'
    <3>1. c \notin dismissed
      BY <1>1, <1>2 DEF OneDialog
    <3> QED
      BY <1>1, <1>2, <1>4, <1>5, <2>1, <2>2, <3>1 DEF OneDialog
  <2> QED
    BY <2>3, <2>4
<1> QED
  BY <1>6, <1>7

LEMMA SubmitsAlone ==
  ASSUME AloneInv, ModalTypeOK', ~overlapped', NEW c \in WebCalls, WebSubmits(c)
  PROVE  OneCall' /\ OneDialog'
<1> USE DEF AloneInv, ModalTypeOK, Phases
<1>1. /\ phase[c] = "made" /\ c \in Calls /\ ~overlapped
      /\ phase' = [phase EXCEPT ![c] = "called"] /\ queue' = Append(queue, c)
      /\ UNCHANGED <<waitsOn, stack, semaphore, value, dialog, dismissed>>
  BY DEF WebSubmits, semVars, screen, history, Calls
<1>2. OneCall /\ OneDialog
  BY <1>1
<1>3. InProgress = {c} /\ Asking = {} /\ c = semaphore
  BY <1>1, <1>2 DEF OneCall, InProgress, Asking
<1>4. dialog = NoCall /\ stack = <<>> /\ \A n \in DOMAIN queue : queue[n] \notin Calls
  BY <1>1, <1>3, NoneAsked
<1>5. InProgress' = {c} /\ Asking' = {c} /\ Returned' = Returned
  BY <1>1, <1>3 DEF InProgress, Asking, Returned
<1>6. \A n \in DOMAIN queue' : queue'[n] \in Calls => n = Len(queue) + 1 /\ queue'[n] = c
  BY <1>1, <1>4, SMTT(30)
<1>7. OneCall'
  <2>1. \A d \in WebCalls : phase'[d] # "waiting"
    BY <1>1, <1>3 DEF Asking, Calls
  <2> QED
    BY <1>1, <1>3, <1>4, <1>5, <2>1 DEF OneCall
<1>8. OneDialog'
  <2>1. c \notin dismissed
    BY <1>1, <1>2 DEF OneDialog
  <2>2. dialog' = NoCall /\ dismissed' = dismissed /\ NoCall \notin Calls
    BY <1>1, <1>4
  <2>3. \A n \in DOMAIN queue' : queue'[n] \in Calls =>
          queue'[n] \in Asking' /\ queue'[n] \notin dismissed' /\ queue'[n] # dialog'
    BY <1>5, <1>6, <2>1, <2>2
  <2>4. \A m, n \in DOMAIN queue' : queue'[m] \in Calls /\ queue'[m] = queue'[n] => m = n
    BY <1>6
  <2>5. \A d \in Calls : phase'[d] \in {"new", "begun", "made"} => d \notin dismissed'
    BY <1>1, <1>2 DEF OneDialog
  <2>6. Returned' \subseteq dismissed' /\ \A d \in Calls : value'[d] > 0 => d \in dismissed'
    BY <1>1, <1>2, <1>5 DEF OneDialog
  <2> QED
    BY <2>2, <2>3, <2>4, <2>5, <2>6 DEF OneDialog
<1> QED
  BY <1>7, <1>8

LEMMA ShownAlone ==
  ASSUME AloneInv, ModalTypeOK', ~overlapped',
         MainQueue \/ Tapped \/ \E c \in WebCalls : WebWaits(c)
  PROVE  OneCall' /\ OneDialog'
<1> USE DEF AloneInv, ModalTypeOK, Phases
<1>1. OneCall /\ OneDialog
  BY DEF MainQueue, Tapped, WebWaits, history
<1>2. CASE MainQueue
  <2>1. /\ UNCHANGED <<callVars, semVars, crashed, history>>
        /\ queue # <<>> /\ queue' = Tail(queue)
    BY <1>2 DEF MainQueue
  <2>2. InProgress' = InProgress /\ Asking' = Asking /\ Returned' = Returned
    BY <2>1 DEF callVars, InProgress, Asking, Returned
  <2>3. Len(queue') = Len(queue) - 1 /\ \A n \in DOMAIN queue' : n + 1 \in DOMAIN queue
                                                             /\ queue'[n] = queue[n + 1]
    BY <2>1, SMTT(30)
  <2>4. 1 \in DOMAIN queue /\ Head(queue) = queue[1]
    BY <2>1
  <2>5. OneCall'
    BY <1>1, <2>1, <2>2 DEF OneCall, callVars, semVars
  <2>6. /\ dialog' # NoCall => dialog' \in Asking /\ dialog' \notin dismissed
        /\ \A n \in DOMAIN queue' : queue'[n] \in Calls => queue'[n] # dialog'
    <3>1. CASE Head(queue) \notin Calls
      BY <1>1, <1>2, <2>3, <3>1 DEF MainQueue, OneDialog, Shown
    <3>2. CASE Head(queue) \in Calls
      <4>1. dialog = NoCall
        BY <1>1, <2>4, <3>2 DEF OneDialog, OneCall, InProgress, Asking
      <4>2. dialog' = queue[1]
        BY <1>2, <2>4, <3>2, <4>1 DEF MainQueue, Shown
      <4>3. \A n \in DOMAIN queue' : queue'[n] \in Calls => queue'[n] # queue[1]
        <5>1. \A n \in DOMAIN queue' : n + 1 # 1
          BY <2>1
        <5>2. \A m, n \in DOMAIN queue : queue[m] \in Calls /\ queue[m] = queue[n] => m = n
          BY <1>1 DEF OneDialog
        <5> QED
          BY <2>3, <2>4, <3>2, <5>1, <5>2
      <4> QED
        BY <1>1, <2>4, <3>2, <4>2, <4>3 DEF OneDialog
    <3> QED
      BY <3>1, <3>2
  <2>7. OneDialog'
    BY <1>1, <2>1, <2>2, <2>3, <2>6 DEF OneDialog, callVars, semVars, history
  <2> QED
    BY <2>5, <2>7
<1>3. CASE Tapped
  <2>1. /\ dialog \in Asking /\ dialog = semaphore /\ dialog \in Calls
        /\ UNCHANGED <<callVars, semaphore, queue>>
        /\ dismissed' = dismissed \cup {dialog} /\ dialog' = NoCall
        /\ value' = [value EXCEPT ![semaphore] = @ + 1]
    BY <1>1, <1>3 DEF Tapped, Dismiss, OneDialog, OneCall, InProgress, Asking
  <2>2. InProgress' = InProgress /\ Asking' = Asking /\ Returned' = Returned
    BY <2>1 DEF callVars, InProgress, Asking, Returned
  <2>3. OneCall'
    BY <1>1, <2>1, <2>2 DEF OneCall, callVars
  <2>4. OneDialog'
    BY <1>1, <2>1, <2>2 DEF OneDialog, callVars, Asking
  <2> QED
    BY <2>3, <2>4
<1>4. ASSUME NEW c \in WebCalls, WebWaits(c) PROVE OneCall' /\ OneDialog'
  <2>1. /\ phase[c] = "called" /\ phase' = [phase EXCEPT ![c] = "waiting"]
        /\ waitsOn' = semaphore /\ c \in Calls
        /\ UNCHANGED <<stack, semVars, queue, dialog, dismissed>>
    BY <1>4 DEF WebWaits, screen, history, Calls
  <2>2. c = semaphore /\ InProgress' = InProgress /\ Asking' = Asking /\ Returned' = Returned
    BY <1>1, <2>1 DEF OneCall, InProgress, Asking, Returned
  <2>3. OneCall'
    BY <1>1, <2>1, <2>2 DEF OneCall, semVars, InProgress, Calls
  <2>4. OneDialog'
    BY <1>1, <2>1, <2>2 DEF OneDialog, semVars
  <2> QED
    BY <2>3, <2>4
<1> QED
  BY <1>2, <1>3, <1>4

LEMMA ReturnsAlone ==
  ASSUME AloneInv, ModalTypeOK', ~overlapped',
         MainReturns \/ \E c \in WebCalls : WebReturns(c)
  PROVE  OneCall' /\ OneDialog'
<1> USE DEF AloneInv, ModalTypeOK, Phases
<1>1. OneCall /\ OneDialog
  BY DEF MainReturns, WebReturns, history
<1>2. PICK c \in Calls :
        /\ c \in InProgress /\ phase[c] = "waiting" /\ c = semaphore
        /\ value[c] > 0 /\ value' = [value EXCEPT ![c] = @ - 1]
        /\ Returns(c)
        /\ UNCHANGED <<semaphore, dialog, dismissed>>
        /\ c \in WebCalls => UNCHANGED stack
        /\ c \in MainCalls => stack' = SubSeq(stack, 1, Len(stack) - 1)
  <2>1. CASE MainReturns
    <3>1. /\ Len(stack) \in DOMAIN stack /\ stack[Len(stack)] \in MainCalls
      BY <2>1 DEF MainReturns
    <3>2. /\ stack[Len(stack)] = semaphore /\ stack[Len(stack)] \in InProgress
          /\ phase[stack[Len(stack)]] = "waiting"
      BY <1>1, <3>1 DEF OneCall, InProgress, Calls
    <3> QED
      BY <2>1, <3>1, <3>2 DEF MainReturns, TakeSignal, screen, history, Calls
  <2>2. ASSUME NEW c \in WebCalls, WebReturns(c)
        PROVE  /\ c \in Calls /\ c \in InProgress /\ phase[c] = "waiting" /\ c = semaphore
               /\ value[c] > 0 /\ value' = [value EXCEPT ![c] = @ - 1]
               /\ Returns(c)
               /\ UNCHANGED <<semaphore, dialog, dismissed, stack>>
               /\ c \notin MainCalls
    <3>1. /\ c \in InProgress /\ phase[c] = "waiting" /\ c \in Calls
          /\ c \notin MainCalls /\ waitsOn = c
      BY <1>1, <2>2 DEF WebReturns, InProgress, OneCall, Calls
    <3>2. c = semaphore
      BY <1>1, <3>1 DEF OneCall
    <3> QED
      BY <2>2, <3>1, <3>2 DEF WebReturns, TakeSignal, screen, history
  <2> QED
    BY <2>1, <2>2
<1>3. c \in dismissed
  BY <1>1, <1>2 DEF OneDialog
<1>4. InProgress = {c}
  BY <1>1, <1>2 DEF OneCall
<1>5. phase' = [phase EXCEPT ![c] = "returned"] /\ queue' = Append(queue, "front")
  BY <1>2 DEF Returns
<1>6. InProgress' = {} /\ Asking' = {} /\ Returned' = Returned \cup {c}
  BY <1>4, <1>5, SMTT(30) DEF InProgress, Asking, Returned
<1>7. dialog = NoCall /\ \A n \in DOMAIN queue' : queue'[n] \notin Calls
  <2>1. dialog = NoCall /\ \A n \in DOMAIN queue : queue[n] \notin Calls
    BY <1>1, <1>3, <1>4 DEF OneDialog, InProgress, Asking
  <2> QED
    BY <1>5, <2>1, SMTT(30)
<1>8. stack' = <<>>
  <2>1. CASE c \in WebCalls
    <3>1. \A n \in DOMAIN stack : stack[n] = c /\ stack[n] \in MainCalls
      BY <1>1, <1>4 DEF OneCall, InProgress, Calls
    <3>2. Len(stack) = 0
      <4>1. Len(stack) # 0 => 1 \in DOMAIN stack
        OBVIOUS
      <4> QED
        BY <2>1, <3>1, <4>1
    <3> QED
      BY <1>2, <2>1, <3>2
  <2>2. CASE c \in MainCalls
    <3>1. stack' = SubSeq(stack, 1, Len(stack) - 1) /\ Len(stack) <= 1
      BY <1>1, <1>2, <2>2 DEF OneCall
    <3>2. Len(stack') = 0
      BY <3>1
    <3> QED
      BY <3>2
  <2> QED
    BY <2>1, <2>2 DEF Calls
<1>9. OneCall'
  <2>1. \A d \in Calls : phase'[d] \notin {"called", "waiting"}
    BY <1>6 DEF InProgress
  <2> QED
    BY <1>6, <1>8, <2>1, SMTT(30) DEF OneCall, Calls
<1>10. OneDialog'
  BY <1>1, <1>2, <1>3, <1>5, <1>6, <1>7 DEF OneDialog
<1> QED
  BY <1>9, <1>10

LEMMA AloneNext == AloneInv /\ [Next]_vars => AloneInv'
<1> SUFFICES ASSUME AloneInv, [Next]_vars PROVE AloneInv'
  OBVIOUS
<1>1. ModalTypeOK'
  BY ModalType DEF AloneInv
<1>2. ASSUME ~overlapped' PROVE OneCall' /\ OneDialog'
  <2>1. ASSUME NEW c \in Calls, Begins(c) PROVE OneCall' /\ OneDialog'
    BY <1>1, <1>2, <2>1, BeginsAlone
  <2>5. ASSUME NEW c \in Calls, WebPresents(c) \/ (c \in MainCalls /\ MainPresents(c))
        PROVE  OneCall' /\ OneDialog'
    BY <1>1, <1>2, <2>5, PresentsAlone
  <2>6. ASSUME NEW c \in WebCalls, WebSubmits(c) PROVE OneCall' /\ OneDialog'
    BY <1>1, <1>2, <2>6, SubmitsAlone
  <2>2. CASE MainQueue \/ Tapped \/ \E c \in WebCalls : WebWaits(c)
    BY <1>1, <1>2, <2>2, ShownAlone
  <2>3. CASE MainReturns \/ \E c \in WebCalls : WebReturns(c)
    BY <1>1, <1>2, <2>3, ReturnsAlone
  <2>4. CASE UNCHANGED vars
    BY <1>2, <2>4
    DEF AloneInv, OneCall, OneDialog, InProgress, Asking, Returned, vars, callVars, semVars, screen,
        history
  <2> QED
    <3>1. Callers => \E c \in Calls : Begins(c)
      BY DEF Callers, WebBegins, MainBegins, Calls
    <3>2. Threads => \/ \E c \in Calls : WebPresents(c) \/ (c \in MainCalls /\ MainPresents(c))
                     \/ \E c \in WebCalls : WebSubmits(c)
                     \/ \E c \in WebCalls : WebWaits(c)
                     \/ MainReturns \/ \E c \in WebCalls : WebReturns(c)
      BY DEF Threads, Calls
    <3> QED
      BY <2>1, <2>2, <2>3, <2>4, <2>5, <2>6, <3>1, <3>2 DEF Next
<1> QED
  BY <1>1, <1>2 DEF AloneInv

(* Calls that none overlaps keep to their semaphore and their dialog. *)
THEOREM AloneInvariant == Spec => []AloneInv
BY InitAlone, AloneNext, PTL DEF Spec

(* Every variable of the dialogs keeps its type. *)
THEOREM ModalTypeCorrect == Spec => []ModalTypeOK
<1>1. AloneInv => ModalTypeOK
  BY DEF AloneInv
<1> QED
  BY <1>1, AloneInvariant, PTL

(* A call that no other overlaps returns only once its own dialog is closed. *)
THEOREM AnswersAreAsked == Spec => []AnswerIsAsked
<1>1. AloneInv => AnswerIsAsked
  BY DEF AloneInv, OneDialog, AnswerIsAsked
<1> QED
  BY <1>1, AloneInvariant, PTL

-----------------------------------------------------------------------------
(* The window.  The last move in the main queue, or without one the window *)
(* itself, agrees with whether a call is in progress.                      *)
LastMove(n) == /\ n \in DOMAIN queue /\ queue[n] \notin Calls
               /\ \A m \in DOMAIN queue : m > n => queue[m] \in Calls
WindowInv ==
  ~overlapped =>
    /\ (\A n \in DOMAIN queue : queue[n] \in Calls) => (atBack <=> InProgress # {})
    /\ \A n : LastMove(n) => (queue[n] = "back" <=> InProgress # {})

(* Every call, and every return, puts its move at the end of the queue.    *)
LEMMA WindowMoves ==
  ASSUME AloneInv, ~overlapped',
         \/ \E c \in Calls : Begins(c)
         \/ \E c \in WebCalls : WebReturns(c)
         \/ MainReturns
  PROVE  WindowInv'
<1> USE DEF AloneInv, ModalTypeOK, Phases
<1>1. OneCall
  BY DEF Begins, WebReturns, MainReturns, history
<1>3. ASSUME NEW c \in Calls, Begins(c) PROVE WindowInv'
  <2>1. queue' = Append(queue, "back") /\ phase' = [phase EXCEPT ![c] = "begun"]
    BY <1>3 DEF Begins
  <2>2. c \in InProgress'
    BY <2>1 DEF InProgress
  <2>3. Len(queue) + 1 \in DOMAIN queue' /\ queue'[Len(queue) + 1] = "back"
    BY <2>1
  <2>4. \A n : LastMove(n)' => n = Len(queue) + 1
    <3>1. \A n \in DOMAIN queue' : n \in Nat /\ n <= Len(queue) + 1
      BY <2>1
    <3>2. Len(queue) + 1 \in DOMAIN queue' /\ queue'[Len(queue) + 1] \notin Calls
      BY <2>3
    <3> QED
      BY <3>1, <3>2 DEF LastMove
  <2> QED
    BY <2>2, <2>3, <2>4 DEF WindowInv
<1>4. ASSUME NEW c, c \in InProgress, Returns(c) PROVE WindowInv'
  <2>1. InProgress = {c}
    BY <1>1, <1>4 DEF OneCall
  <2>2. phase' = [phase EXCEPT ![c] = "returned"] /\ queue' = Append(queue, "front")
    BY <1>4 DEF Returns
  <2>3. InProgress' = {}
    BY <2>1, <2>2 DEF InProgress
  <2>4. Len(queue) + 1 \in DOMAIN queue' /\ queue'[Len(queue) + 1] = "front"
    BY <2>2
  <2>5. \A n : LastMove(n)' => n = Len(queue) + 1
    <3>1. \A n \in DOMAIN queue' : n \in Nat /\ n <= Len(queue) + 1
      BY <2>2
    <3>2. Len(queue) + 1 \in DOMAIN queue' /\ queue'[Len(queue) + 1] \notin Calls
      BY <2>4
    <3> QED
      BY <3>1, <3>2 DEF LastMove
  <2> QED
    BY <2>3, <2>4, <2>5 DEF WindowInv
<1>5. ASSUME NEW c \in WebCalls, WebReturns(c) PROVE WindowInv'
  BY <1>4, <1>5 DEF WebReturns, InProgress, Calls
<1>6. CASE MainReturns
  <2>1. Len(stack) \in DOMAIN stack /\ Returns(stack[Len(stack)])
    BY <1>6 DEF MainReturns
  <2>2. stack[Len(stack)] \in InProgress
    BY <1>1, <2>1 DEF OneCall, InProgress, Calls
  <2> QED
    BY <1>4, <2>1, <2>2
<1> QED
  BY <1>3, <1>5, <1>6

(* The dialog of a call is queued after its move.                          *)
LEMMA WindowSubmits ==
  ASSUME AloneInv, WindowInv, ~overlapped', NEW c \in WebCalls, WebSubmits(c)
  PROVE  WindowInv'
<1> USE DEF AloneInv, ModalTypeOK, Phases
<1>1. /\ phase[c] = "made" /\ c \in Calls /\ ~overlapped
      /\ phase' = [phase EXCEPT ![c] = "called"] /\ queue' = Append(queue, c)
      /\ UNCHANGED atBack
  BY DEF WebSubmits, screen, history, Calls
<1>2. InProgress' = InProgress
  BY <1>1 DEF InProgress
<1>3. /\ DOMAIN queue' = DOMAIN queue \cup {Len(queue) + 1}
      /\ \A n \in DOMAIN queue : queue'[n] = queue[n]
      /\ queue'[Len(queue) + 1] = c
  BY <1>1
<1>4. \A n : LastMove(n)' => LastMove(n) /\ queue'[n] = queue[n]
  BY <1>1, <1>3 DEF LastMove
<1> QED
  BY <1>1, <1>2, <1>3, <1>4 DEF WindowInv

(* The main queue carries out the first move; the last one stays the last. *)
LEMMA WindowShown ==
  ASSUME AloneInv, WindowInv, ~overlapped', MainQueue
  PROVE  WindowInv'
<1> USE DEF AloneInv, ModalTypeOK
<1>1. ~overlapped /\ InProgress' = InProgress /\ queue # <<>> /\ queue' = Tail(queue)
  BY DEF MainQueue, history, callVars, InProgress
<1>2. DOMAIN queue' = 1 .. (Len(queue) - 1) /\ \A n \in DOMAIN queue' : queue'[n] = queue[n + 1]
  BY <1>1
<1>3. /\ Head(queue) = queue[1] /\ DOMAIN queue = 1 .. Len(queue) /\ Len(queue) \in Nat \ {0}
      /\ queue[1] \in Calls \cup {"back", "front"}
  BY <1>1
<1>4. ASSUME NEW n, LastMove(n)' PROVE queue'[n] = "back" <=> InProgress' # {}
  <2>1. LastMove(n + 1) /\ queue'[n] = queue[n + 1]
    <3>1. n + 1 \in DOMAIN queue /\ queue[n + 1] \notin Calls /\ queue'[n] = queue[n + 1]
      BY <1>2, <1>3, <1>4 DEF LastMove
    <3>2. ASSUME NEW m \in DOMAIN queue, m > n + 1 PROVE queue[m] \in Calls
      <4>1. n \in Nat /\ m \in Nat
        BY <1>2, <1>3, <1>4 DEF LastMove
      <4>2. m - 1 \in DOMAIN queue' /\ m - 1 > n
        BY <1>2, <1>3, <3>2, <4>1
      <4>3. queue'[m - 1] = queue[m]
        BY <1>2, <4>1, <4>2
      <4> QED
        BY <1>4, <4>2, <4>3 DEF LastMove
    <3> QED
      BY <3>1, <3>2 DEF LastMove
  <2> QED
    BY <1>1, <2>1 DEF WindowInv
<1>5. ASSUME \A n \in DOMAIN queue' : queue'[n] \in Calls PROVE atBack' <=> InProgress' # {}
  <2>1. \A m \in DOMAIN queue : m > 1 => queue[m] \in Calls
    <3> SUFFICES ASSUME NEW m \in DOMAIN queue, m > 1 PROVE queue[m] \in Calls
      OBVIOUS
    <3>1. m - 1 \in DOMAIN queue' /\ m \in Nat
      BY <1>2, <1>3
    <3> QED
      BY <1>2, <1>5, <3>1
  <2>2. CASE queue[1] \in Calls
    <3>1. atBack' = atBack
      BY <1>3, <2>2 DEF MainQueue
    <3>2. \A m \in DOMAIN queue : queue[m] \in Calls
      BY <1>3, <2>1, <2>2
    <3> QED
      BY <1>1, <3>1, <3>2 DEF WindowInv
  <2>3. CASE queue[1] \notin Calls
    <3>1. LastMove(1)
      BY <1>3, <2>1, <2>3 DEF LastMove
    <3>2. atBack' <=> queue[1] = "back"
      BY <1>3, <2>3 DEF MainQueue
    <3> QED
      BY <1>1, <3>1, <3>2 DEF WindowInv
  <2> QED
    BY <2>2, <2>3
<1> QED
  BY <1>4, <1>5 DEF WindowInv

LEMMA WindowNext ==
  ASSUME AloneInv, WindowInv, [Next]_vars
  PROVE  WindowInv'
<1>1. CASE overlapped'
  BY <1>1 DEF WindowInv
<1>2. CASE \/ \E c \in Calls : Begins(c)
           \/ \E c \in WebCalls : WebReturns(c)
           \/ MainReturns
  BY <1>1, <1>2, WindowMoves
<1>3. CASE MainQueue
  BY <1>1, <1>3, WindowShown
<1>4. CASE Tapped \/ UNCHANGED vars
  BY <1>4 DEF Tapped, vars, callVars, screen, history, WindowInv, LastMove, InProgress
<1>5. ASSUME NEW c \in Calls, WebPresents(c) \/ WebWaits(c) \/ MainPresents(c)
      PROVE  WindowInv'
  <2>1. /\ phase[c] \in {"begun", "called"} /\ UNCHANGED <<queue, atBack, overlapped>>
        /\ \/ phase' = [phase EXCEPT ![c] = "made"]
           \/ phase' = [phase EXCEPT ![c] = "waiting"]
    BY <1>5 DEF WebPresents, WebWaits, MainPresents, screen, history
  <2>2. InProgress' = InProgress
    BY <2>1 DEF InProgress, AloneInv, ModalTypeOK
  <2> QED
    BY <2>1, <2>2 DEF WindowInv, LastMove
<1>6. ASSUME NEW c \in WebCalls, WebSubmits(c) PROVE WindowInv'
  BY <1>1, <1>6, WindowSubmits
<1> QED
  BY <1>2, <1>3, <1>4, <1>5, <1>6
  DEF Next, Callers, Threads, WebBegins, MainBegins, Calls

(* A dialog that no other call overlaps is not covered by the floating     *)
(* window once the main queue is served, and the window is back in front   *)
(* when the call has returned.                                             *)
THEOREM DialogsAreVisible == Spec => []DialogIsVisible
<1>1. Init => WindowInv
  BY DEF Init, WindowInv, LastMove, InProgress
<1>2. AloneInv /\ WindowInv => DialogIsVisible
  <2> SUFFICES ASSUME AloneInv, WindowInv, ~overlapped, queue = <<>>
               PROVE  (dialog # NoCall => atBack) /\ (InProgress = {} => ~atBack)
    BY DEF DialogIsVisible
  <2>1. atBack <=> InProgress # {}
    BY DEF WindowInv
  <2> QED
    BY <2>1 DEF AloneInv, OneDialog, InProgress, Asking
<1>3. AloneInv /\ WindowInv /\ [Next]_vars => WindowInv'
  BY WindowNext
<1> QED
  BY <1>1, <1>2, <1>3, AloneInvariant, PTL DEF Spec

-----------------------------------------------------------------------------
(* Taps, with calls that overlap.  The signals not yet taken, as a set. *)
Tokens == {t \in Calls \X Nat : 1 <= t[2] /\ t[2] <= value[t[1]]}

(* A dialog is shown once at most, for a call that has come so far. *)
Submitted == {c \in Calls : phase[c] \in {"called", "waiting", "returned"}}
DialogsInv ==
  /\ \A c \in Calls : phase[c] \notin {"new", "begun"} => semaphore \in Calls
  /\ dismissed \subseteq Submitted
  /\ dialog # NoCall => dialog \in Submitted /\ dialog \notin dismissed
  /\ \A n \in DOMAIN queue : queue[n] \in Calls =>
       queue[n] \in Submitted /\ queue[n] \notin dismissed /\ queue[n] # dialog
  /\ \A m, n \in DOMAIN queue : queue[m] \in Calls /\ queue[m] = queue[n] => m = n

(* The web thread is in one call, and a thread that waits has a semaphore. *)
ThreadsInv ==
  /\ \A n \in DOMAIN stack : stack[n] \in Submitted
  /\ \A c, d \in WebCalls \cap InProgress : c = d
  /\ \A c \in WebCalls : phase[c] = "waiting" => waitsOn \in Calls

(* A tap is a dialog closed; its signal is there or a call has taken it. *)
SignalsInv ==
  /\ IsFiniteSet(Tokens)
  /\ Cardinality(Returned) + Cardinality(Tokens) <= Cardinality(dismissed)

TapInv == ModalTypeOK /\ DialogsInv /\ ThreadsInv /\ SignalsInv

LEMMA FiniteCalls ==
  ASSUME ModalTypeOK
  PROVE  /\ IsFiniteSet(Returned) /\ Cardinality(Returned) \in Nat
         /\ IsFiniteSet(dismissed) /\ Cardinality(dismissed) \in Nat
<1>1. Returned \in SUBSET Calls /\ dismissed \in SUBSET Calls
  BY DEF ModalTypeOK, Returned
<1> QED
  BY <1>1, FS_Subset, FS_CardinalityType

LEMMA InitTaps == Init => TapInv
<1> SUFFICES ASSUME Init PROVE TapInv
  OBVIOUS
<1>1. ModalTypeOK
  BY InitAlone DEF AloneInv
<1>2. Returned = {} /\ dismissed = {} /\ Tokens = {}
  BY DEF Init, Returned, Tokens
<1>3. SignalsInv
  <2>1. Cardinality({}) = 0 /\ IsFiniteSet({})
    BY FS_EmptySet
  <2> QED
    BY <1>2, <2>1 DEF SignalsInv
<1>4. DialogsInv /\ ThreadsInv
  BY DEF Init, DialogsInv, ThreadsInv, InProgress, Submitted, Calls
<1> QED
  BY <1>1, <1>3, <1>4 DEF TapInv

LEMMA OneMore ==
  ASSUME NEW S, IsFiniteSet(S), NEW x
  PROVE  IsFiniteSet(S \cup {x}) /\ Cardinality(S \cup {x}) <= Cardinality(S) + 1
<1>1. /\ IsFiniteSet(S \cup {x})
      /\ Cardinality(S \cup {x}) = IF x \in S THEN Cardinality(S) ELSE Cardinality(S) + 1
  BY FS_AddElement
<1>2. Cardinality(S) \in Nat
  BY FS_CardinalityType
<1> QED
  BY <1>1, <1>2

(* No step but a tap adds a signal, and none but a return takes one.       *)
LEMMA FewerSignals ==
  ASSUME TapInv, ModalTypeOK', Returned' = Returned, dismissed' = dismissed,
         \A c \in Calls : value'[c] <= value[c]
  PROVE  SignalsInv'
<1>1. Tokens' \in SUBSET Tokens
  <2> SUFFICES ASSUME NEW t \in Calls \X Nat, 1 <= t[2], t[2] <= value'[t[1]]
               PROVE  t[2] <= value[t[1]]
    BY DEF Tokens
  <2>1. t[1] \in Calls /\ t[2] \in Nat
    OBVIOUS
  <2>2. value[t[1]] \in Nat /\ value'[t[1]] \in Nat /\ value'[t[1]] <= value[t[1]]
    BY <2>1 DEF TapInv, ModalTypeOK
  <2> QED
    BY <2>1, <2>2
<1>2. /\ IsFiniteSet(Tokens') /\ Cardinality(Tokens') <= Cardinality(Tokens)
      /\ Cardinality(Tokens) \in Nat /\ Cardinality(Tokens') \in Nat
  BY <1>1, FS_Subset, FS_CardinalityType DEF TapInv, SignalsInv
<1>3. Cardinality(Returned) \in Nat /\ Cardinality(dismissed) \in Nat
  BY FiniteCalls DEF TapInv
<1> QED
  BY <1>2, <1>3 DEF TapInv, SignalsInv

LEMMA BeginsTaps ==
  ASSUME TapInv, ModalTypeOK',
         \/ \E c \in WebCalls : WebBegins(c)
         \/ \E c \in MainCalls : Begins(c)
  PROVE  DialogsInv' /\ ThreadsInv' /\ SignalsInv'
<1> USE DEF Phases
<1>1. PICK c \in Calls :
        /\ phase[c] = "new" /\ phase' = [phase EXCEPT ![c] = "begun"]
        /\ queue' = Append(queue, "back")
        /\ UNCHANGED <<waitsOn, stack, semaphore, value, dialog, dismissed>>
        /\ c \in WebCalls => InProgress \cap WebCalls = {}
  <2>1. ASSUME NEW c \in WebCalls, WebBegins(c)
        PROVE  c \in Calls /\ Begins(c) /\ InProgress \cap WebCalls = {}
    BY <2>1 DEF WebBegins, Calls
  <2>2. ASSUME NEW c \in MainCalls PROVE c \in Calls /\ c \notin WebCalls
    BY DEF Calls
  <2> QED
    BY <2>1, <2>2 DEF Begins, semVars, screen
<1>2. phase \in [Calls -> Phases] /\ value \in [Calls -> Nat]
  BY DEF TapInv, ModalTypeOK
<1>3. /\ Submitted' = Submitted /\ Returned' = Returned /\ InProgress' = InProgress \cup {c}
  BY <1>1, <1>2 DEF Submitted, Returned, InProgress
<1>4. SignalsInv'
  BY <1>1, <1>2, <1>3, FewerSignals
<1>5. DialogsInv'
  <2>1. \A n \in DOMAIN queue' : queue'[n] \in Calls =>
          n \in DOMAIN queue /\ queue'[n] = queue[n]
    BY <1>1 DEF TapInv, ModalTypeOK
  <2>2. \A d \in Calls : phase'[d] \notin {"new", "begun"} => phase[d] \notin {"new", "begun"}
    BY <1>1, <1>2
  <2> QED
    BY <1>1, <1>3, <2>1, <2>2 DEF TapInv, DialogsInv
<1>6. ThreadsInv'
  <2>1. \A d \in WebCalls : phase'[d] = "waiting" => phase[d] = "waiting"
    BY <1>1, <1>2 DEF Calls
  <2> QED
    BY <1>1, <1>3, <2>1 DEF TapInv, ThreadsInv
<1> QED
  BY <1>4, <1>5, <1>6

LEMMA PresentsTaps ==
  ASSUME TapInv, ModalTypeOK',
         \/ \E c \in WebCalls : WebPresents(c)
         \/ \E c \in MainCalls : MainPresents(c)
  PROVE  DialogsInv' /\ ThreadsInv' /\ SignalsInv'
<1> USE DEF Phases
<1>1. PICK c \in Calls :
        /\ phase[c] = "begun" /\ semaphore' = c /\ value' = [value EXCEPT ![c] = 0]
        /\ UNCHANGED <<waitsOn, queue, dismissed>>
        /\ \/ WebPresents(c)
           \/ c \in MainCalls /\ MainPresents(c)
  BY DEF WebPresents, MainPresents, NewSemaphore, history, Calls
<1>2. phase \in [Calls -> Phases] /\ value \in [Calls -> Nat]
  BY DEF TapInv, ModalTypeOK
<1>3. \A d \in Calls : value'[d] <= value[d]
  BY <1>1, <1>2
<1>4. c \notin Submitted
  BY <1>1 DEF Submitted
<1>5. CASE WebPresents(c)
  <2>1. phase' = [phase EXCEPT ![c] = "made"] /\ UNCHANGED <<stack, dialog>>
    BY <1>5 DEF WebPresents, screen
  <2>2. Submitted' = Submitted /\ Returned' = Returned /\ InProgress' = InProgress
    BY <1>1, <1>2, <2>1 DEF Submitted, Returned, InProgress
  <2>3. SignalsInv'
    BY <1>1, <1>3, <2>2, FewerSignals
  <2>4. DialogsInv'
    BY <1>1, <2>1, <2>2 DEF TapInv, DialogsInv
  <2>5. \A d \in WebCalls : phase'[d] = "waiting" => phase[d] = "waiting"
    BY <1>2, <2>1 DEF Calls
  <2>6. ThreadsInv'
    BY <1>1, <2>1, <2>2, <2>5 DEF TapInv, ThreadsInv
  <2> QED
    BY <2>3, <2>4, <2>6
<1>6. CASE c \in MainCalls /\ MainPresents(c)
  <2>1. /\ phase' = [phase EXCEPT ![c] = "waiting"] /\ stack' = Append(stack, c)
        /\ dialog' = IF dialog = NoCall THEN c ELSE dialog
        /\ stack \in Seq(MainCalls)
    BY <1>6 DEF MainPresents, Shown, TapInv, ModalTypeOK
  <2>2. /\ Submitted' = Submitted \cup {c} /\ Returned' = Returned /\ InProgress' = InProgress
    BY <1>1, <1>2, <2>1 DEF Submitted, Returned, InProgress
  <2>3. SignalsInv'
    BY <1>1, <1>3, <2>2, FewerSignals
  <2>4. DialogsInv'
    <3>1. c \notin dismissed /\ c # dialog /\ \A n \in DOMAIN queue : queue[n] # c
      BY <1>4 DEF TapInv, DialogsInv
    <3> QED
      BY <1>1, <2>1, <2>2, <3>1 DEF TapInv, DialogsInv
  <2>5. ThreadsInv'
    <3>1. \A n \in DOMAIN stack' :
            stack'[n] = c \/ (n \in DOMAIN stack /\ stack'[n] = stack[n])
      BY <2>1
    <3>2. c \notin WebCalls
      BY <1>6
    <3>3. \A d \in WebCalls : phase'[d] = phase[d]
      BY <2>1, <3>2
    <3> QED
      BY <1>1, <2>2, <3>1, <3>3 DEF TapInv, ThreadsInv
  <2> QED
    BY <2>3, <2>4, <2>5
<1> QED
  BY <1>1, <1>5, <1>6

LEMMA SubmitsTaps ==
  ASSUME TapInv, ModalTypeOK', NEW c \in WebCalls, WebSubmits(c)
  PROVE  DialogsInv' /\ ThreadsInv' /\ SignalsInv'
<1> USE DEF Phases
<1>1. /\ phase[c] = "made" /\ c \in Calls
      /\ phase' = [phase EXCEPT ![c] = "called"] /\ queue' = Append(queue, c)
      /\ UNCHANGED <<waitsOn, stack, semaphore, value, dialog, dismissed>>
  BY DEF WebSubmits, semVars, screen, history, Calls
<1>2. phase \in [Calls -> Phases] /\ value \in [Calls -> Nat]
  BY DEF TapInv, ModalTypeOK
<1>3. /\ Submitted' = Submitted \cup {c} /\ c \notin Submitted
      /\ Returned' = Returned /\ InProgress' = InProgress
  BY <1>1, <1>2 DEF Submitted, Returned, InProgress
<1>4. SignalsInv'
  BY <1>1, <1>2, <1>3, FewerSignals
<1>5. DialogsInv'
  <2>1. c \notin dismissed /\ c # dialog /\ \A n \in DOMAIN queue : queue[n] # c
    BY <1>1, <1>3 DEF TapInv, DialogsInv
  <2>2. /\ queue \in Seq(Calls \cup {"back", "front"})
        /\ \A n \in DOMAIN queue' : \/ n \in DOMAIN queue /\ queue'[n] = queue[n]
                                    \/ n = Len(queue) + 1 /\ queue'[n] = c
    BY <1>1 DEF TapInv, ModalTypeOK
  <2>3. semaphore \in Calls
    BY <1>1 DEF TapInv, DialogsInv
  <2>4. \A m, n \in DOMAIN queue' : queue'[m] \in Calls /\ queue'[m] = queue'[n] => m = n
    BY <2>1, <2>2 DEF TapInv, DialogsInv
  <2>5. \A n \in DOMAIN queue' : queue'[n] \in Calls =>
          queue'[n] \in Submitted' /\ queue'[n] \notin dismissed' /\ queue'[n] # dialog'
    BY <1>1, <1>3, <2>1, <2>2 DEF TapInv, DialogsInv
  <2> QED
    BY <1>1, <1>3, <2>3, <2>4, <2>5 DEF TapInv, DialogsInv
<1>6. ThreadsInv'
  <2>1. \A d \in WebCalls : phase'[d] = "waiting" => phase[d] = "waiting"
    BY <1>1, <1>2 DEF Calls
  <2> QED
    BY <1>1, <1>3, <2>1 DEF TapInv, ThreadsInv
<1> QED
  BY <1>4, <1>5, <1>6

LEMMA ShownTaps ==
  ASSUME TapInv, ModalTypeOK', MainQueue \/ \E c \in WebCalls : WebWaits(c)
  PROVE  DialogsInv' /\ ThreadsInv' /\ SignalsInv'
<1> USE DEF Phases
<1>1. CASE MainQueue
  <2>1. /\ UNCHANGED <<callVars, semVars, history>> /\ queue # <<>> /\ queue' = Tail(queue)
        /\ queue \in Seq(Calls \cup {"back", "front"})
    BY <1>1 DEF MainQueue, TapInv, ModalTypeOK
  <2>2. /\ 1 \in DOMAIN queue /\ Head(queue) = queue[1]
        /\ \A n \in DOMAIN queue' : n + 1 \in DOMAIN queue /\ queue'[n] = queue[n + 1] /\ n + 1 # 1
    BY <2>1
  <2>3. /\ \A m, n \in DOMAIN queue' : m + 1 = n + 1 => m = n
        /\ \A n \in DOMAIN queue' : n \in Nat
    BY <2>1
  <2>4. /\ dialog' # dialog => dialog = NoCall /\ dialog' = queue[1] /\ queue[1] \in Calls
    BY <1>1, <2>2 DEF MainQueue, Shown
  <2>5. DialogsInv'
    <3>1. UNCHANGED <<phase, semaphore, dismissed, Submitted>>
      BY <2>1 DEF callVars, semVars, history, Submitted
    <3>2. \A n \in DOMAIN queue' : queue'[n] \in Calls => queue'[n] # queue[1]
      BY <2>2 DEF TapInv, DialogsInv
    <3>3. \A m, n \in DOMAIN queue' : queue'[m] \in Calls /\ queue'[m] = queue'[n] => m = n
      BY <2>2, <2>3 DEF TapInv, DialogsInv
    <3>4. \A n \in DOMAIN queue' : queue'[n] \in Calls =>
            /\ queue'[n] \in Submitted /\ queue'[n] \notin dismissed /\ queue'[n] # dialog
      BY <2>2 DEF TapInv, DialogsInv
    <3>5. queue[1] \in Calls => queue[1] \in Submitted /\ queue[1] \notin dismissed
      BY <2>2 DEF TapInv, DialogsInv
    <3> QED
      BY <2>4, <3>1, <3>2, <3>3, <3>4, <3>5 DEF TapInv, DialogsInv
  <2>6. ThreadsInv'
    BY <2>1 DEF TapInv, ThreadsInv, InProgress, Submitted, callVars
  <2>7. SignalsInv'
    BY <2>1 DEF TapInv, SignalsInv, Tokens, Returned, callVars, semVars, history
  <2> QED
    BY <2>5, <2>6, <2>7
<1>2. ASSUME NEW c \in WebCalls, WebWaits(c) PROVE DialogsInv' /\ ThreadsInv' /\ SignalsInv'
  <2>1. /\ phase[c] = "called" /\ phase' = [phase EXCEPT ![c] = "waiting"]
        /\ waitsOn' = semaphore /\ c \in Calls /\ phase \in [Calls -> Phases]
        /\ UNCHANGED <<stack, semaphore, value, queue, dialog, dismissed>>
    BY <1>2 DEF WebWaits, semVars, screen, history, Calls, TapInv, ModalTypeOK
  <2>2. InProgress' = InProgress /\ Returned' = Returned /\ Submitted' = Submitted
    BY <2>1 DEF InProgress, Returned, Submitted
  <2>3. SignalsInv'
    BY <2>1, <2>2 DEF TapInv, SignalsInv, Tokens
  <2>4. semaphore \in Calls
    BY <2>1 DEF TapInv, DialogsInv
  <2>5. ThreadsInv'
    BY <2>1, <2>2, <2>4 DEF TapInv, ThreadsInv
  <2>6. DialogsInv'
    BY <2>1, <2>2, <2>4 DEF TapInv, DialogsInv
  <2> QED
    BY <2>3, <2>5, <2>6
<1> QED
  BY <1>1, <1>2

(* A tap closes a dialog that was never closed, and makes one signal. *)
LEMMA TappedTaps ==
  ASSUME TapInv, ModalTypeOK', Tapped
  PROVE  DialogsInv' /\ ThreadsInv' /\ SignalsInv'
<1>1. /\ dialog \in Calls /\ dialog \in Submitted /\ dialog \notin dismissed
      /\ semaphore \in Calls
  BY DEF Tapped, TapInv, ModalTypeOK, DialogsInv, Submitted
<1>2. /\ UNCHANGED <<phase, waitsOn, stack, semaphore, queue>>
      /\ dismissed' = dismissed \cup {dialog} /\ dialog' = NoCall
      /\ value' = [value EXCEPT ![semaphore] = @ + 1]
  BY DEF Tapped, Dismiss, callVars
<1>3. SignalsInv'
  <2> DEFINE t == <<semaphore, value[semaphore] + 1>>
  <2>1. value \in [Calls -> Nat]
    BY DEF TapInv, ModalTypeOK
  <2>2. Tokens' = Tokens \cup {t}
    <3>1. t \in Tokens'
      <4>1. value[semaphore] \in Nat /\ value[semaphore] + 1 \in Nat /\ 1 <= value[semaphore] + 1
        BY <1>1, <2>1
      <4>2. value'[semaphore] = value[semaphore] + 1
        BY <1>1, <1>2, <2>1
      <4> QED
        BY <1>1, <4>1, <4>2 DEF Tokens
    <3>2. ASSUME NEW c \in Calls, NEW k \in Nat
          PROVE  <<c, k>> \in Tokens' <=> (<<c, k>> \in Tokens \/ <<c, k>> = t)
      <4>1. CASE c = semaphore
        <5>1. value'[c] = value[c] + 1 /\ value[c] \in Nat
          BY <1>1, <1>2, <2>1, <4>1
        <5>2. <<c, k>> \in Tokens' <=> (1 <= k /\ k <= value'[c])
          BY DEF Tokens
        <5>3. <<c, k>> \in Tokens <=> (1 <= k /\ k <= value[c])
          BY DEF Tokens
        <5>4. <<c, k>> = t <=> k = value[c] + 1
          BY <4>1
        <5> HIDE DEF t
        <5> QED
          BY <5>1, <5>2, <5>3, <5>4
      <4>2. CASE c # semaphore
        <5>1. value'[c] = value[c]
          BY <1>1, <1>2, <2>1, <4>2
        <5> QED
          BY <4>2, <5>1 DEF Tokens
      <4> QED
        BY <4>1, <4>2
    <3>3. Tokens \subseteq Calls \X Nat /\ Tokens' \subseteq Calls \X Nat
      BY DEF Tokens
    <3>4. t \in Calls \X Nat
      BY <3>1, <3>3
    <3> HIDE DEF t
    <3> QED
      BY <3>2, <3>3, <3>4
  <2>3. IsFiniteSet(Tokens') /\ Cardinality(Tokens') <= Cardinality(Tokens) + 1
    <3>1. IsFiniteSet(Tokens) /\ Cardinality(Tokens) \in Nat
      BY FS_CardinalityType DEF TapInv, SignalsInv
    <3> HIDE DEF t
    <3>2. IsFiniteSet(Tokens \cup {t}) /\ Cardinality(Tokens \cup {t}) <= Cardinality(Tokens) + 1
      BY <3>1, OneMore
    <3> QED
      BY <2>2, <3>2
  <2>4. Cardinality(dismissed') = Cardinality(dismissed) + 1
    BY <1>1, <1>2, FS_AddElement, FiniteCalls DEF TapInv
  <2>5. Returned' = Returned
    BY <1>2 DEF Returned
  <2>6. /\ Cardinality(Returned) \in Nat /\ Cardinality(dismissed) \in Nat
        /\ Cardinality(Tokens) \in Nat /\ Cardinality(Tokens') \in Nat
    BY <2>3, FiniteCalls, FS_CardinalityType DEF TapInv, SignalsInv
  <2> QED
    BY <2>3, <2>4, <2>5, <2>6 DEF TapInv, SignalsInv
<1>4. ThreadsInv'
  BY <1>2 DEF TapInv, ThreadsInv, InProgress, Submitted
<1>5. DialogsInv'
  BY <1>1, <1>2 DEF TapInv, DialogsInv, Submitted
<1> QED
  BY <1>3, <1>4, <1>5

(* A return takes a signal, of a semaphore that the call did not make when calls overlap. *)
LEMMA ReturnsTaps ==
  ASSUME TapInv, ModalTypeOK', MainReturns \/ \E c \in WebCalls : WebReturns(c)
  PROVE  DialogsInv' /\ ThreadsInv' /\ SignalsInv'
<1> USE DEF Phases
<1>1. PICK c \in Calls, s \in Calls :
        /\ c \in Submitted /\ TakeSignal(s) /\ Returns(c)
        /\ UNCHANGED <<semaphore, dialog, dismissed>>
        /\ \/ UNCHANGED stack /\ c \in WebCalls /\ phase[c] = "waiting"
           \/ stack' = SubSeq(stack, 1, Len(stack) - 1) /\ stack # <<>> /\ UNCHANGED waitsOn
  <2>1. CASE MainReturns
    <3>1. Len(stack) \in DOMAIN stack /\ stack[Len(stack)] \in MainCalls /\ stack # <<>>
      BY <2>1 DEF MainReturns, TapInv, ModalTypeOK
    <3>2. stack[Len(stack)] \in Submitted /\ stack[Len(stack)] \in Calls
      BY <3>1 DEF TapInv, ThreadsInv, Calls
    <3>3. semaphore \in Calls
      BY <3>2 DEF TapInv, DialogsInv, Submitted
    <3> QED
      BY <2>1, <3>1, <3>2, <3>3 DEF MainReturns, screen, history
  <2>2. ASSUME NEW c \in WebCalls, WebReturns(c)
        PROVE  /\ c \in Calls /\ waitsOn \in Calls /\ c \in Submitted
               /\ phase[c] = "waiting" /\ TakeSignal(waitsOn) /\ Returns(c)
               /\ UNCHANGED <<semaphore, dialog, dismissed, stack>>
    BY <2>2 DEF WebReturns, screen, history, TapInv, ThreadsInv, Calls, Submitted
  <2> QED
    BY <2>1, <2>2
<1>2. /\ value[s] > 0 /\ value' = [value EXCEPT ![s] = @ - 1]
      /\ phase' = [phase EXCEPT ![c] = "returned"] /\ queue' = Append(queue, "front")
  BY <1>1 DEF TakeSignal, Returns
<1>3. phase \in [Calls -> Phases] /\ value \in [Calls -> Nat]
  BY DEF TapInv, ModalTypeOK
<1>4. /\ Submitted' = Submitted /\ InProgress' = InProgress \ {c}
      /\ Returned' = Returned \cup {c}
  BY <1>1, <1>2, <1>3 DEF InProgress, Returned, Submitted
<1>5. SignalsInv'
  <2> DEFINE t == <<s, value[s]>>
  <2>1. t \in Tokens
    <3>1. s \in Calls /\ value[s] \in Nat /\ 1 <= value[s]
      BY <1>1, <1>2, <1>3
    <3> QED
      BY <3>1 DEF Tokens
  <2>2. Tokens' \in SUBSET (Tokens \ {t})
    <3> SUFFICES ASSUME NEW u \in Calls \X Nat, 1 <= u[2], u[2] <= value'[u[1]]
                 PROVE  u[2] <= value[u[1]] /\ u # t
      BY DEF Tokens
    <3>1. u[1] \in Calls /\ u[2] \in Nat
      OBVIOUS
    <3>2. CASE u[1] = s
      <4>1. value'[u[1]] = value[s] - 1 /\ value[s] \in Nat
        BY <1>1, <1>2, <1>3, <3>2
      <4>2. u = t => u[2] = value[s]
        OBVIOUS
      <4> HIDE DEF t
      <4> QED
        BY <3>1, <3>2, <4>1, <4>2
    <3>3. CASE u[1] # s
      <4>1. value'[u[1]] = value[u[1]]
        BY <1>2, <1>3, <3>1, <3>3
      <4>2. u # t
        BY <3>3
      <4> QED
        BY <4>1, <4>2
    <3> QED
      BY <3>2, <3>3
  <2> HIDE DEF t
  <2>3. /\ IsFiniteSet(Tokens) /\ Cardinality(Tokens) \in Nat
        /\ IsFiniteSet(Tokens \ {t}) /\ Cardinality(Tokens \ {t}) = Cardinality(Tokens) - 1
    BY <2>1, FS_RemoveElement, FS_CardinalityType DEF TapInv, SignalsInv
  <2>4. /\ IsFiniteSet(Tokens') /\ Cardinality(Tokens') <= Cardinality(Tokens \ {t})
        /\ Cardinality(Tokens') \in Nat
    BY <2>2, <2>3, FS_Subset, FS_CardinalityType
  <2>5. /\ Cardinality(Returned) \in Nat /\ Cardinality(dismissed) \in Nat
        /\ IsFiniteSet(Returned)
    BY FiniteCalls DEF TapInv
  <2>6. Cardinality(Returned') <= Cardinality(Returned) + 1 /\ Cardinality(Returned') \in Nat
    <3>1. IsFiniteSet(Returned \cup {c}) /\ Cardinality(Returned \cup {c}) <= Cardinality(Returned) + 1
      BY <2>5, OneMore
    <3> QED
      BY <1>4, <3>1, FS_CardinalityType
  <2>7. dismissed' = dismissed
    BY <1>1
  <2> QED
    BY <2>3, <2>4, <2>5, <2>6, <2>7 DEF TapInv, SignalsInv
<1>6. DialogsInv'
  <2>1. \A d \in Calls : phase'[d] \notin {"new", "begun"} => phase[d] \notin {"new", "begun"}
    BY <1>1, <1>2, <1>3 DEF Submitted
  <2>2. \A n \in DOMAIN queue' : queue'[n] \in Calls => n \in DOMAIN queue /\ queue'[n] = queue[n]
    BY <1>2 DEF TapInv, ModalTypeOK
  <2> QED
    BY <1>1, <1>4, <2>1, <2>2 DEF TapInv, DialogsInv
<1>7. ThreadsInv'
  <2>1. stack \in Seq(MainCalls) /\ MainCalls \subseteq Calls /\ WebCalls \subseteq Calls
    BY DEF TapInv, ModalTypeOK, Calls
  <2>2. \A n \in DOMAIN stack' : n \in DOMAIN stack /\ stack'[n] = stack[n]
    <3>1. stack # <<>> => Len(stack) - 1 \in Nat
      BY <2>1
    <3> QED
      BY <1>1, <2>1, <3>1
  <2>3. \A d \in WebCalls : phase'[d] = "waiting" => waitsOn' \in Calls
    <3>1. \A d \in WebCalls : phase'[d] = "waiting" => phase[d] = "waiting" /\ d # c
      BY <1>2, <1>3, <2>1
    <3>2. ASSUME NEW d \in WebCalls, phase'[d] = "waiting" PROVE UNCHANGED waitsOn
      <4>1. phase[d] = "waiting" /\ d # c /\ d \in WebCalls \cap InProgress
        BY <2>1, <3>1, <3>2 DEF InProgress
      <4>2. ~(c \in WebCalls /\ phase[c] = "waiting")
        BY <1>1, <4>1 DEF TapInv, ThreadsInv, InProgress
      <4> QED
        BY <1>1, <4>2
    <3> QED
      BY <3>1, <3>2 DEF TapInv, ThreadsInv
  <2> QED
    BY <1>4, <2>1, <2>2, <2>3 DEF TapInv, ThreadsInv
<1> QED
  BY <1>5, <1>6, <1>7

LEMMA TapsNext == TapInv /\ [Next]_vars => TapInv'
<1> SUFFICES ASSUME TapInv, [Next]_vars PROVE TapInv'
  OBVIOUS
<1>1. ModalTypeOK'
  BY ModalType DEF TapInv
<1>2. CASE \/ \E c \in WebCalls : WebBegins(c)
           \/ \E c \in MainCalls : Begins(c)
  BY <1>1, <1>2, BeginsTaps DEF TapInv
<1>7. CASE \/ \E c \in WebCalls : WebPresents(c)
           \/ \E c \in MainCalls : MainPresents(c)
  BY <1>1, <1>7, PresentsTaps DEF TapInv
<1>8. ASSUME NEW c \in WebCalls, WebSubmits(c) PROVE TapInv'
  BY <1>1, <1>8, SubmitsTaps DEF TapInv
<1>3. CASE MainQueue \/ \E c \in WebCalls : WebWaits(c)
  BY <1>1, <1>3, ShownTaps DEF TapInv
<1>4. CASE Tapped
  BY <1>1, <1>4, TappedTaps DEF TapInv
<1>5. CASE MainReturns \/ \E c \in WebCalls : WebReturns(c)
  BY <1>1, <1>5, ReturnsTaps DEF TapInv
<1>6. CASE UNCHANGED vars
  BY <1>6 DEF TapInv, ModalTypeOK, DialogsInv, ThreadsInv, SignalsInv, Tokens, Returned,
              InProgress, Submitted, vars, callVars, semVars, screen, history
<1> QED
  BY <1>2, <1>3, <1>4, <1>5, <1>6, <1>7, <1>8 DEF Next, Callers, Threads, MainBegins

(* However the calls of the two threads overlap, and whichever semaphore   *)
(* each of them waits on, no more calls return than dialogs were closed.   *)
THEOREM TapsBoundReturns == Spec => []OneReturnPerTap
<1>1. TapInv => OneReturnPerTap
  <2> SUFFICES ASSUME TapInv PROVE OneReturnPerTap
    OBVIOUS
  <2>1. /\ Cardinality(Returned) \in Nat /\ Cardinality(dismissed) \in Nat
        /\ Cardinality(Tokens) \in Nat
    BY FiniteCalls, FS_CardinalityType DEF TapInv, SignalsInv
  <2> QED
    BY <2>1 DEF TapInv, SignalsInv, OneReturnPerTap
<1> QED
  BY <1>1, InitTaps, TapsNext, PTL DEF Spec
=============================================================================
