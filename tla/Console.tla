-------------------------------- MODULE Console --------------------------------
(***************************************************************************)
(* Who starts, watches and stops a run: the process (runInteractive,       *)
(* runHeadless and the exit status of main.go) and the terminal interface  *)
(* (tui/update.go), over the engine of module Scheduler.                   *)
(*                                                                         *)
(* Of the ten views and their lists only those are told apart whose keys   *)
(* reach the engine: the mailboxes, the results, and all the others.       *)
(***************************************************************************)
EXTENDS Scheduler

CONSTANTS Modes,   \* "tui" with a terminal, else "headless"
          Signals, \* what may interrupt: "ctrl+c", "hup"
          Keys     \* the keys that are pressed

ASSUME ConsoleAssumption == /\ Modes \subseteq {"tui", "headless"}
                            /\ Signals \subseteq {"ctrl+c", "hup"}
                            /\ Keys \subseteq {"p", "r", "R", "u", "view", "popup", "search"}

VARIABLES
  mode,
  tui,   \* Model: shuttingDown, forced, finished, phase, hup (its
         \* terminal is gone), view, capture, quitting
  exit   \* the exit status, Alive while the process is there

console == <<mode, tui, exit>>
allVars == <<vars, console>>

engine == <<go, slots, places, reg, lease, board, budget, control>>

Phases == 6   \* shutdownPhases
Alive == -1

-------------------------------------------------------------------------------
(***************************************************************************)
(* The terminal interface.                                                 *)
(***************************************************************************)

Shown == mode = "tui" /\ ~tui.quitting

\* Keys other than Ctrl+C: the dialog of a shutdown ignores them, a popup and a
\* search take them.
Listens(k) == Shown /\ ~tui.shutting /\ tui.capture = "none" /\ k \in Keys

\* onKey, Ctrl+C: what becomes of the model.
AfterCtrlC ==
  IF tui.finished \/ tui.shutting
  THEN [tui EXCEPT !.forced = ~tui.finished, !.quitting = TRUE]
  ELSE [tui EXCEPT !.shutting = TRUE]

\* Ctrl+C ends a finished console, stops a run, and forces one that is stopping.
CtrlC ==
  /\ Shown
  /\ "ctrl+c" \in Signals
  /\ tui' = AfterCtrlC
  /\ IF tui.finished THEN UNCHANGED engine
     ELSE IF tui.shutting THEN HardStop
     ELSE Interrupt
  /\ UNCHANGED <<mode, exit>>

\* doneMsg, once.
DoneMsg ==
  /\ Shown
  /\ Over
  /\ ~tui.finished /\ tui.phase = 0
  /\ tui' = IF tui.shutting THEN [tui EXCEPT !.phase = 1]
            ELSE [tui EXCEPT !.finished = TRUE, !.view = "results"]
  /\ UNCHANGED <<engine, mode, exit>>

\* phaseMsg: the dialog walks through its phases, is held, and goes.
PhaseMsg ==
  /\ Shown
  /\ tui.phase > 0
  /\ tui' = IF tui.phase <= Phases THEN [tui EXCEPT !.phase = @ + 1]
            ELSE [tui EXCEPT !.quitting = TRUE]
  /\ UNCHANGED <<engine, mode, exit>>

\* q and esc: out of the results, else home.
Home ==
  /\ Listens("view")
  /\ tui' = IF tui.view = "results" THEN [tui EXCEPT !.quitting = TRUE]
            ELSE [tui EXCEPT !.view = IF tui.finished THEN "results" ELSE "other"]
  /\ UNCHANGED <<engine, mode, exit>>

\* The keys of the views; enter leads from the results to the mailboxes.
View ==
  /\ Listens("view")
  /\ \E v \in {"mailboxes", "other"} : tui' = [tui EXCEPT !.view = v]
  /\ UNCHANGED <<engine, mode, exit>>

\* A popup, opened over a list or the results, or a search in a list.
Capture ==
  /\ \/ Listens("popup") /\ tui.view # "other"
          /\ tui' = [tui EXCEPT !.capture = "popup"]
     \/ Listens("search") /\ tui.view = "mailboxes"
          /\ tui' = [tui EXCEPT !.capture = "search"]
  /\ UNCHANGED <<engine, mode, exit>>

\* Enter or esc.
EndCapture ==
  /\ Shown /\ ~tui.shutting
  /\ tui.capture # "none"
  /\ tui' = [tui EXCEPT !.capture = "none"]
  /\ UNCHANGED <<engine, mode, exit>>

KeyP == Listens("p") /\ TogglePause /\ UNCHANGED console

KeyRAll == Listens("R") /\ Requeue(Row) /\ UNCHANGED console

\* r: the mailbox that is selected.
KeyR ==
  /\ Listens("r") /\ tui.view = "mailboxes"
  /\ \E r \in Row : Requeue({r})
  /\ UNCHANGED console

KeyU == Listens("u") /\ Reload /\ UNCHANGED console

-------------------------------------------------------------------------------
(***************************************************************************)
(* The process.                                                            *)
(***************************************************************************)

\* Without a terminal: the first signal of any kind stops the run, ...
Signal ==
  /\ mode = "headless" /\ Signals # {}
  /\ alarm = "off"
  /\ ~Over
  /\ Interrupt
  /\ UNCHANGED console

\* ... the second one the process, whatever the engine does.
SecondSignal ==
  /\ mode = "headless" /\ Signals # {}
  /\ alarm # "off"
  /\ ~Over
  /\ HardStop
  /\ exit' = 130
  /\ UNCHANGED <<mode, tui>>

\* SIGHUP under the TUI: the program is told to quit.
HangupTui ==
  /\ Shown /\ "hup" \in Signals
  /\ Hangup
  /\ tui' = [tui EXCEPT !.hup = TRUE, !.quitting = TRUE]
  /\ UNCHANGED <<mode, exit>>

\* Mutant: a run that was cut short and one that failed look like one that ended well.
StatusOfRun == IF main = "failed" THEN 1 ELSE 0

\* The exit status of a run that has returned.
ExitStatus == IF main = "failed" THEN 1
              ELSE IF ctx THEN 130
              ELSE IF counts \intersect Retryable # {} THEN 1 ELSE 0

\* runMigrate waits for the engine and leaves.
Leave ==
  /\ mode = "tui" => tui.quitting
  /\ Over
  /\ exit' = ExitStatus
  /\ UNCHANGED <<engine, mode, tui>>

\* After a hard stop it waits two seconds at most.
LeaveUnfinished ==
  /\ tui.quitting /\ tui.forced
  /\ ~Over
  /\ exit' = 130
  /\ UNCHANGED <<engine, mode, tui>>

-------------------------------------------------------------------------------
ConsoleInit ==
  /\ Init
  /\ mode \in Modes
  /\ tui = [shutting |-> FALSE, forced |-> FALSE, finished |-> FALSE, phase |-> 0,
            hup |-> FALSE, view |-> "other", capture |-> "none", quitting |-> FALSE]
  /\ exit = Alive

Goroutines == \E g \in DOMAIN go : Step(g)

Environment == \E g \in DOMAIN go : Lose(g) \/ Hang(g)

Main == Admit \/ AdmitFails \/ InstallHooks \/ SeeDone \/ EndRun \/ Return

Timer == Escalate

UI == CtrlC \/ DoneMsg \/ PhaseMsg \/ Home \/ View \/ Capture \/ EndCapture
      \/ KeyP \/ KeyRAll \/ KeyR \/ KeyU

Process == Signal \/ SecondSignal \/ HangupTui \/ Leave \/ LeaveUnfinished

Next ==
  /\ exit = Alive
  /\ \/ (Goroutines \/ Environment \/ Main \/ Timer) /\ UNCHANGED console
     \/ UI
     \/ Process

\* The most goroutines there can be.
MaxGo == Cardinality(Row) * (1 + MaxRequeue)

\* Goroutines, the timer and the messages of the console are scheduled; the
\* servers, the signals and the keys are not.
Fairness ==
  /\ \A g \in 1..MaxGo :
       WF_allVars(exit = Alive /\ g \in DOMAIN go /\ Step(g) /\ UNCHANGED console)
  /\ WF_allVars(exit = Alive /\ Main /\ UNCHANGED console)
  /\ WF_allVars(exit = Alive /\ Timer /\ UNCHANGED console)
  /\ WF_allVars(exit = Alive /\ (DoneMsg \/ PhaseMsg \/ Leave \/ LeaveUnfinished))

Spec == ConsoleInit /\ [][Next]_allVars /\ Fairness

-------------------------------------------------------------------------------
\* Every variable keeps its type, and no channel holds more than its capacity.
TypeOK ==
  /\ main \in {"opening", "admitted", "waiting", "drained", "ended", "returned", "failed"}
  /\ go \in Seq([row : Row, idx : Nat, silent : BOOLEAN,
                 at : {"queued", "slot", "first", "second", "ready", "opening", "work",
                       "last", "backoff", "finish", "release", "gone"},
                 link : {"none", "dialing", "closed dialing", "greeting", "deaf",
                         "open", "closed"}])
  /\ Len(go) <= MaxGo
  /\ slots \in 0..Workers
  /\ places \in [Hosts -> 0..PerHost]
  /\ reg \in [Row -> 0..Len(go)]
  /\ lease \subseteq Row
  /\ DOMAIN spec \subseteq Row
  /\ \A i \in DOMAIN board : board[i] \in [label : Row, status : Statuses]
  /\ {ctx, paused} \subseteq BOOLEAN
  /\ alarm \in {"off", "set", "gone"}
  /\ counts \subseteq Statuses
  /\ mode \in Modes
  /\ tui.phase \in 0..Phases + 1
  /\ exit \in {Alive, 0, 1, 130}

\* g has its k-th place.
Holds(g, k) ==
  go[g].at \in {"ready", "finish", "release"} \union Running \union IF k = 1 THEN {"second"} ELSE {}

\* Whom a place at host h belongs to, as often as it has one.
HoldersOf(h) ==
  {t \in (DOMAIN go) \X (1..2) : Sorted(go[t[1]].row)[t[2]] = h /\ Holds(t[1], t[2])}

\* No place and no slot is lost or given back twice: the channels hold one token
\* for every goroutine that has taken one, however the run is cut short.
PlacesAreBalanced ==
  /\ slots = Cardinality(DOMAIN go \ InState({"queued", "gone"}))
  /\ \A h \in Hosts : places[h] = Cardinality(HoldersOf(h))

\* A mailbox has one runner at a time in this process, and the lease as long as it
\* runs: two would copy each message twice, the lease, which belongs to the process,
\* stops neither, and the first to end would clear it for both.
OneRunnerPerMailbox ==
  /\ \A g, k \in InState(Running) : go[g].row = go[k].row => g = k
  /\ \A g \in InState(Running) : go[g].row \in lease

\* Every mailbox is shown under an entry of its own.
OwnEntry ==
  \A g \in DOMAIN go : go[g].idx \in DOMAIN board => board[go[g].idx].label = go[g].row

\* Once the results are drawn up nothing changes a mailbox any more; the database
\* that is closed then has no runner left.
ResultsAreFinal == main \in {"ended", "returned"} => InState(Running) = {}

Through == {"SUCCESS", "WARNINGS", "SKIPPED"}

\* Exit status 0 says that every mailbox of the run was through when the results were
\* drawn up, and still is, however the run has been stopped, re-queued and extended.
\* Only a row that a reload has added since may be on the board besides, QUEUED for
\* ever: the database it would need is closed (scheduler.go, mailbox.go, main.go).
ZeroMeansDone ==
  exit = 0 =>
    /\ counts \subseteq Through
    /\ \A i \in DOMAIN board :
         \/ board[i].status \in Through
         \/ board[i].status = "QUEUED" /\ board[i].label \notin ToSet(Csv)

\* Without the exception: what an operator expects of exit code 0 (in no run; a row that
\* is reloaded after the engine has returned violates it).
ZeroMeansAll ==
  exit = 0 => \A i \in DOMAIN board : board[i].status \in Through

\* Ctrl+C ends the process, paused or not, whatever the servers do.
CtrlCEnds == (alarm # "off") ~> (exit # Alive \/ tui.finished)

\* A run that is not left paused comes to its end by itself, if no greeting is
\* kept back: nobody waits for a slot or a place for ever.
RunEnds ==
  <>(Over \/ exit # Alive)
    \/ <>[](paused \/ \E g \in DOMAIN go : go[g].silent /\ go[g].at = "opening")
===============================================================================
