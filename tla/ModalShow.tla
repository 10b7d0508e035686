------------------------------- MODULE ModalShow -------------------------------
(***************************************************************************)
(* The dialogs that block their caller: ModalShow (src/ModalShow.h) under  *)
(* alert, confirm and prompt of FloatMenu (src/FloatMenu.h), on the        *)
(* systems where usingCustomDialog is set.                                 *)
(*                                                                         *)
(* Scripts call them on the web thread, which waits on a semaphore; the    *)
(* main thread calls alert when a page has loaded, and turns its run loop  *)
(* until the semaphore is signalled, so that a second call of the main     *)
(* thread can start inside the first.  The semaphore is one static         *)
(* variable: every call replaces it, and the button of a dialog signals    *)
(* the one it finds there.                                                 *)
(*                                                                         *)
(* A definition whose name is that of the next one with a word after it is *)
(* that definition with an error in it; the specification does not use it. *)
(***************************************************************************)
EXTENDS Integers, Sequences, FiniteSets

CONSTANTS
  WebCalls,   \* the calls of the web thread, one after the other
  MainCalls,  \* the calls of the main thread
  NoCall

Calls == WebCalls \cup MainCalls
ASSUME CallsAssumption ==
  /\ WebCalls \cap MainCalls = {} /\ NoCall \notin Calls
  /\ IsFiniteSet(Calls) /\ {"back", "front"} \cap Calls = {}

VARIABLES
  phase,      \* phase[c]: how far call c has come, one of Phases
  semaphore,  \* the call that made the current semaphore
  value,      \* value[c]: signals of the semaphore that c made, not yet taken
  waitsOn,    \* the semaphore the web thread waits on
  stack,      \* the calls of the main thread in progress, the innermost last
  queue,      \* the main queue: "back", "front", or a call whose dialog is to be shown
  dialog,     \* the dialog on the screen
  atBack,     \* the floating window is behind its siblings
  crashed,
  (* history, read by properties only *)
  dismissed,  \* the dialogs that the user has closed
  overlapped  \* a call was made while another was in progress

callVars == <<phase, waitsOn, stack>>
semVars == <<semaphore, value>>
screen == <<dialog, atBack>>
history == <<dismissed, overlapped>>
vars == <<callVars, semVars, queue, screen, crashed, history>>

Phases == {"new",      \* not made yet
           "begun",    \* the window's move to the back is queued
           "made",     \* the semaphore is made
           "called",   \* the dialog is queued
           "waiting",  \* waits on a semaphore
           "returned"}
InProgress == {c \in Calls : phase[c] \in {"begun", "made", "called", "waiting"}}
Returned == {c \in Calls : phase[c] = "returned"}

Init ==
  /\ phase = [c \in Calls |-> "new"]
  /\ semaphore = NoCall /\ value = [c \in Calls |-> 0]
  /\ waitsOn = NoCall /\ stack = <<>> /\ queue = <<>>
  /\ dialog = NoCall /\ atBack = FALSE /\ crashed = FALSE
  /\ dismissed = {} /\ overlapped = FALSE

-----------------------------------------------------------------------------
(* alert, confirm or prompt: the window is to go to the back.  The web     *)
(* thread makes one call at a time; the main thread serves its queue, its  *)
(* run loop and the user only where it is not in the middle of a call.     *)
Begins(c) ==
  /\ phase[c] = "new"
  /\ phase' = [phase EXCEPT ![c] = "begun"]
  /\ queue' = Append(queue, "back")
  /\ overlapped' = (overlapped \/ InProgress # {})
  /\ UNCHANGED <<waitsOn, stack, semVars, screen, crashed, dismissed>>

MainFree == \A c \in MainCalls : phase[c] # "begun"

WebBegins(c) == InProgress \cap WebCalls = {} /\ Begins(c)
MainBegins(c) == MainFree /\ Begins(c)

(* present: a new semaphore.  It frees the one before, and libdispatch may *)
(* end the process if a thread is waiting on it; two threads that replace  *)
(* it at once may both free it.                                            *)
NewSemaphore(c) ==
  /\ semaphore' = c /\ value' = [value EXCEPT ![c] = 0]
  /\ \/ UNCHANGED crashed
     \/ /\ \/ waitsOn = semaphore /\ waitsOn # NoCall
           \/ \E d \in Calls \ {c} : phase[d] = "begun"
        /\ crashed' = TRUE

WebPresents(c) ==
  /\ phase[c] = "begun"
  /\ NewSemaphore(c)
  /\ phase' = [phase EXCEPT ![c] = "made"]
  /\ UNCHANGED <<waitsOn, stack, queue, screen, history>>

(* The dialog is queued for the main thread. *)
WebSubmits(c) ==
  /\ phase[c] = "made"
  /\ phase' = [phase EXCEPT ![c] = "called"]
  /\ queue' = Append(queue, c)
  /\ UNCHANGED <<waitsOn, stack, semVars, screen, crashed, history>>

(* A dialog that is presented while another is on the screen is refused. *)
Shown(c) == dialog' = IF dialog = NoCall THEN c ELSE dialog

(* The main thread shows the dialog at once, before "back" is done. *)
MainPresents(c) ==
  /\ phase[c] = "begun"
  /\ NewSemaphore(c)
  /\ Shown(c)
  /\ phase' = [phase EXCEPT ![c] = "waiting"]
  /\ stack' = Append(stack, c)
  /\ UNCHANGED <<waitsOn, queue, atBack, history>>

(* dispatch_semaphore_wait reads the static variable again. *)
WebWaits(c) ==
  /\ phase[c] = "called"
  /\ phase' = [phase EXCEPT ![c] = "waiting"]
  /\ waitsOn' = semaphore
  /\ UNCHANGED <<stack, semVars, queue, screen, crashed, history>>

(* The main queue is served between two turns of the main run loop. *)
MainQueue ==
  /\ MainFree
  /\ queue # <<>> /\ queue' = Tail(queue)
  /\ \/ Head(queue) = "back" /\ atBack' = TRUE /\ UNCHANGED dialog
     \/ Head(queue) = "front" /\ atBack' = FALSE /\ UNCHANGED dialog
     \/ Head(queue) \in Calls /\ Shown(Head(queue)) /\ UNCHANGED atBack
  /\ UNCHANGED <<callVars, semVars, crashed, history>>

-----------------------------------------------------------------------------
(* dismiss: the handler of a button signals the current semaphore. *)
DismissUnsignalled == UNCHANGED value
Dismiss == value' = [value EXCEPT ![semaphore] = @ + 1]

Tapped ==
  /\ MainFree /\ dialog # NoCall
  /\ Dismiss
  /\ dismissed' = dismissed \cup {dialog}
  /\ dialog' = NoCall
  /\ UNCHANGED <<callVars, semaphore, queue, atBack, crashed, overlapped>>

(* The call goes on, and its function brings the window to the front. *)
TakeSignalBlind(s) == value' = [value EXCEPT ![s] = @ - 1]
TakeSignalInverted(s) == value[s] = 0 /\ UNCHANGED value
TakeSignalLeft(s) == value[s] > 0 /\ UNCHANGED value
TakeSignal(s) == value[s] > 0 /\ value' = [value EXCEPT ![s] = @ - 1]

ReturnsAtBack(c) ==
  /\ phase' = [phase EXCEPT ![c] = "returned"]
  /\ UNCHANGED queue
Returns(c) ==
  /\ phase' = [phase EXCEPT ![c] = "returned"]
  /\ queue' = Append(queue, "front")

WebReturns(c) ==
  /\ c \in WebCalls /\ phase[c] = "waiting"
  /\ TakeSignal(waitsOn) /\ waitsOn' = NoCall
  /\ Returns(c)
  /\ UNCHANGED <<stack, semaphore, screen, crashed, history>>

(* The innermost call of the main thread polls whatever semaphore there is. *)
MainReturns ==
  /\ MainFree /\ stack # <<>>
  /\ TakeSignal(semaphore)
  /\ Returns(stack[Len(stack)])
  /\ stack' = SubSeq(stack, 1, Len(stack) - 1)
  /\ UNCHANGED <<waitsOn, semaphore, screen, crashed, history>>

Threads == \/ \E c \in WebCalls : WebPresents(c) \/ WebSubmits(c) \/ WebWaits(c)
                                \/ WebReturns(c)
           \/ \E c \in MainCalls : MainPresents(c)
           \/ MainReturns
Callers == \/ \E c \in WebCalls : WebBegins(c)
           \/ \E c \in MainCalls : MainBegins(c)

Next == ~crashed /\ (Callers \/ Threads \/ MainQueue \/ Tapped)
Spec == Init /\ [][Next]_vars
(* Threads run, and the main queue is served; the user need not answer. *)
FairSpec == /\ Spec
            /\ WF_vars(~crashed /\ Threads)
            /\ WF_vars(~crashed /\ MainQueue)

-----------------------------------------------------------------------------
(* Types of the variables.                                                 *)
ModalTypeOK ==
  /\ phase \in [Calls -> Phases]
  /\ semaphore \in Calls \cup {NoCall} /\ waitsOn \in Calls \cup {NoCall}
  /\ value \in [Calls -> Nat]
  /\ stack \in Seq(MainCalls) /\ queue \in Seq(Calls \cup {"back", "front"})
  /\ dialog \in Calls \cup {NoCall} /\ atBack \in BOOLEAN
  /\ crashed \in BOOLEAN
  /\ dismissed \subseteq Calls /\ overlapped \in BOOLEAN

(* A tap lets one caller go on, however the calls overlap.                 *)
OneReturnPerTap == Cardinality(Returned) <= Cardinality(dismissed)

(* A call that no other overlaps returns only after the user has closed    *)
(* its own dialog.                                                         *)
AnswerIsAsked == ~overlapped => Returned \subseteq dismissed

(* While a dialog is open the floating window does not cover it, and after *)
(* the last call it is back in front.                                      *)
DialogIsVisible ==
  ~overlapped /\ queue = <<>> =>
    /\ dialog # NoCall => atBack
    /\ InProgress = {} => ~atBack

(* A call that no other overlaps returns once its dialog is closed.        *)
ClosedReturns ==
  \A c \in Calls : c \in dismissed ~> (c \in Returned \/ overlapped)
=============================================================================
