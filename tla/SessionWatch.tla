---------------------------- MODULE SessionWatch ----------------------------
(***************************************************************************)
(* The watch over the one QUIC session that carries all traffic of a       *)
(* hysteria2 or tuic node: internal/core/session_watch.go.                 *)
(*                                                                         *)
(* A session can live without delivering.  Every stream reports whether it *)
(* got data (noteOK) or failed (noteFail); enough failures in a row        *)
(* condemn the session, which is then torn down and, for the node in use,  *)
(* set up again by one background goroutine.                               *)
(*                                                                         *)
(* Time is a tick of 20 seconds.  Instants are kept as ages, each capped   *)
(* just above the largest threshold it is compared with: an instant never  *)
(* set (the zero time) has the cap.  Two readings of the clock inside one  *)
(* handler are the same tick, and a goroutine that only has to take a      *)
(* mutex does so within the tick.                                          *)
(***************************************************************************)
EXTENDS Integers, FiniteSets, FiniteSetsExt

CONSTANTS
  Conns,            \* the streams the model follows one by one
  MaxWarmers,       \* goroutines that could be running warm
  SickFailures,     \* failures in a row that condemn the session
  SickWindow,       \* they lie within this many ticks
  SickCooldown,     \* ticks between two verdicts
  HandshakeWindow,  \* a stream older than this got no answer
  WarmTries         \* attempts of one warm

ASSUME SessionConstants ==
  /\ {SickFailures, SickWindow, SickCooldown, WarmTries} \subseteq Nat \ {0}
  /\ HandshakeWindow \in Nat
  /\ SickWindow % 2 = 0
  /\ MaxWarmers \in Nat \ {0}

VARIABLES
  fails,      \* failures of the current row
  sinceFirst, \* age of its first
  sinceOK,    \* age of lastOK
  sinceSick,  \* age of lastSick
  conn,       \* [Conns -> stream]
  verdict,    \* the goroutine that condemned the session
  update,     \* the goroutine that reports a change of network
  warming,    \* the flag of the single flight
  warm,       \* [Warmers -> goroutine]
  needed,     \* the user wants to be connected and this node is in use
  tally,      \* history: failures since the row was last cleared, by age
  owed        \* history: torn down in use, and not set up again since

sessionVars == <<fails, sinceFirst, sinceOK, sinceSick, conn, verdict, update,
                 warming, warm, needed, tally, owed>>
counters == <<fails, sinceFirst, sinceOK, sinceSick, tally>>
warmVars == <<warming, warm>>

Warmers == 1 .. MaxWarmers
HalfWindow == SickWindow \div 2
Older(age, cap) == IF age < cap THEN age + 1 ELSE cap
Atmost(n, cap) == IF n < cap THEN n ELSE cap
NoFailures == [age \in 0 .. SickWindow |-> 0]

\* A stream.  failDue is a failure decided on and not yet counted; failures is
\* history, how many of them this stream has been.
NoConn == [phase |-> "none", age |-> 0, got |-> FALSE, done |-> FALSE,
           failDue |-> FALSE, failures |-> 0]
Phases == {"none", "open", "closing"}
Stream == [phase: Phases, age: 0 .. HandshakeWindow + 1, got: BOOLEAN,
           done: BOOLEAN, failDue: BOOLEAN, failures: 0 .. 2]

Handler == {"idle", "tear", "rebuild"}
Idle == [pc |-> "idle", try |-> 0]
WarmPcs == {"idle", "check", "dial", "leave"}

SessionInit ==
  /\ fails = 0
  /\ sinceFirst = SickWindow + 1
  /\ sinceOK = HalfWindow
  /\ sinceSick = SickCooldown
  /\ conn = [c \in Conns |-> NoConn]
  /\ verdict = "idle"
  /\ update = "idle"
  /\ warming = FALSE
  /\ warm = [g \in Warmers |-> Idle]
  /\ needed \in BOOLEAN
  /\ tally = NoFailures
  /\ owed = FALSE

-----------------------------------------------------------------------------
(* The counters, under w.mu.                                               *)

ClearFailures ==
  /\ fails' = 0
  /\ sinceFirst' = SickWindow + 1
  /\ tally' = NoFailures

\* noteOK: the session delivers.
NoteOK ==
  /\ ClearFailures
  /\ sinceOK' = 0
  /\ UNCHANGED <<sinceSick, verdict>>

\* touch: a stream that had data before has more.  Once a second at most,
\* far below a tick.
Touch ==
  /\ sinceOK' = 0
  /\ UNCHANGED <<fails, sinceFirst, sinceSick, tally, verdict>>

NewRow == fails = 0 \/ sinceFirst > SickWindow

\* mutant: one failure more than documented.
FaultyNoteFail ==
  LET row  == IF NewRow THEN 1 ELSE Atmost(fails + 1, SickFailures)
      sick == /\ row > SickFailures
              /\ sinceOK >= HalfWindow
              /\ sinceSick >= SickCooldown
  IN  /\ fails' = IF sick THEN 0 ELSE row
      /\ sinceFirst' = IF sick THEN SickWindow + 1
                       ELSE IF NewRow THEN 0 ELSE sinceFirst
      /\ sinceSick' = IF sick THEN 0 ELSE sinceSick
      /\ verdict' = IF sick THEN "tear" ELSE verdict
      /\ tally' = IF sick THEN NoFailures
                  ELSE [tally EXCEPT ![0] = Atmost(@ + 1, SickFailures)]
      /\ UNCHANGED sinceOK

\* noteFail up to the unlock: count, and condemn the session if that is enough.
\* fails is only compared with SickFailures and is capped there.
NoteFail ==
  LET row  == IF NewRow THEN 1 ELSE Atmost(fails + 1, SickFailures)
      sick == /\ row >= SickFailures
              /\ sinceOK >= HalfWindow
              /\ sinceSick >= SickCooldown
  IN  /\ fails' = IF sick THEN 0 ELSE row
      /\ sinceFirst' = IF sick THEN SickWindow + 1
                       ELSE IF NewRow THEN 0 ELSE sinceFirst
      /\ sinceSick' = IF sick THEN 0 ELSE sinceSick
      /\ verdict' = IF sick THEN "tear" ELSE verdict
      /\ tally' = IF sick THEN NoFailures
                  ELSE [tally EXCEPT ![0] = Atmost(@ + 1, SickFailures)]
      /\ UNCHANGED sinceOK

-----------------------------------------------------------------------------
(* Streams.                                                                *)

StreamFrame == UNCHANGED <<update, warming, warm, needed>>
DecideOnly == UNCHANGED <<fails, sinceFirst, sinceOK, sinceSick, tally,
                          verdict, owed>> /\ StreamFrame

\* DialContext succeeds: the session is there, set up on the way if need be.
Dial(c) ==
  /\ conn[c].phase = "none"
  /\ conn' = [conn EXCEPT ![c] = [NoConn EXCEPT !.phase = "open"]]
  /\ owed' = FALSE
  /\ UNCHANGED <<counters, verdict>> /\ StreamFrame

\* DialContext or ListenPacket of a request fails.
DialFails ==
  /\ NoteFail
  /\ UNCHANGED <<conn, owed>> /\ StreamFrame

\* ListenPacket of a request succeeds: not watched further.
PacketOpens ==
  /\ owed
  /\ owed' = FALSE
  /\ UNCHANGED <<counters, conn, verdict>> /\ StreamFrame

\* Read returns data: the first time it settles the stream's outcome and is noteOK,
\* later it is a touch.  A Read can still return while Close runs.
FirstData(c) ==
  /\ conn[c].phase # "none" /\ ~conn[c].got
  /\ conn' = [conn EXCEPT ![c].got = TRUE, ![c].done = TRUE]
  /\ NoteOK
  /\ UNCHANGED owed /\ StreamFrame

MoreData(c) ==
  /\ conn[c].phase # "none" /\ conn[c].got
  /\ Touch
  /\ UNCHANGED <<conn, owed>> /\ StreamFrame

\* noteErr on an error the server answered with: the session is alive.
ServerReplied(c) ==
  /\ conn[c].phase = "open" /\ ~conn[c].got /\ ~conn[c].done
  /\ conn' = [conn EXCEPT ![c].done = TRUE]
  /\ NoteOK
  /\ UNCHANGED owed /\ StreamFrame

\* noteErr on any other error of Read or Write: counted in the handshake window,
\* left to Close after it.
NoteErr(c) ==
  /\ conn[c].phase = "open" /\ ~conn[c].got /\ ~conn[c].done
  /\ conn[c].age <= HandshakeWindow
  /\ conn' = [conn EXCEPT ![c].done = TRUE, ![c].failDue = TRUE,
                          ![c].failures = Atmost(@ + 1, 2)]
  /\ DecideOnly

\* Close: a stream that outlived the handshake window and got nothing counts as a
\* failure.
Close(c) ==
  LET settles == ~conn[c].got /\ ~conn[c].done
      failed  == settles /\ conn[c].age > HandshakeWindow
  IN  /\ conn[c].phase = "open"
      /\ conn' = [conn EXCEPT
           ![c].phase = "closing",
           ![c].done = @ \/ settles,
           ![c].failDue = @ \/ failed,
           ![c].failures = IF failed THEN Atmost(@ + 1, 2) ELSE @]
      /\ DecideOnly

Closed(c) ==
  /\ conn[c].phase = "closing" /\ ~conn[c].failDue
  /\ conn' = [conn EXCEPT ![c] = NoConn]
  /\ DecideOnly

\* The failure is counted after the stream settled on it: data read by another
\* goroutine, of this stream too, may come between.
ReportFail(c) ==
  /\ conn[c].failDue
  /\ conn' = [conn EXCEPT ![c].failDue = FALSE]
  /\ NoteFail
  /\ UNCHANGED owed /\ StreamFrame

-----------------------------------------------------------------------------
(* A verdict, a change of network, and setting the session up again.       *)

\* noteFail after the unlock: OnSick, which asks for a health check, then tear the
\* session down, then rebuilt.
TearSick ==
  /\ verdict = "tear"
  /\ verdict' = "rebuild"
  /\ owed' = needed
  /\ UNCHANGED <<counters, conn, update, warmVars, needed>>

\* InterfaceUpdated: tear down, forget the failures, then rebuilt.
NetworkChanged ==
  /\ update = "idle"
  /\ update' = "tear"
  /\ owed' = needed
  /\ UNCHANGED <<counters, conn, verdict, warmVars, needed>>

ResetFailures ==
  /\ update = "tear"
  /\ update' = "rebuild"
  /\ ClearFailures
  /\ UNCHANGED <<sinceOK, sinceSick, conn, verdict, warmVars, needed, owed>>

\* mutant: starts a goroutine without the compare-and-swap.
FaultyRebuilt ==
  IF needed
    THEN /\ warming' = TRUE
         /\ \E g \in Warmers :
              /\ warm[g].pc = "idle"
              /\ warm' = [warm EXCEPT ![g] = [pc |-> "check", try |-> 0]]
    ELSE UNCHANGED warmVars

\* rebuilt: the node in use is warmed up, by one goroutine at a time.
Rebuilt ==
  IF needed /\ ~warming
    THEN /\ warming' = TRUE
         /\ LET g == Min({x \in Warmers : warm[x].pc = "idle"})
            IN  warm' = [warm EXCEPT ![g] = [pc |-> "check", try |-> 0]]
    ELSE UNCHANGED warmVars

RebuiltSick ==
  /\ verdict = "rebuild"
  /\ verdict' = "idle"
  /\ Rebuilt
  /\ UNCHANGED <<counters, conn, update, needed, owed>>

RebuiltNetwork ==
  /\ update = "rebuild"
  /\ update' = "idle"
  /\ Rebuilt
  /\ UNCHANGED <<counters, conn, verdict, needed, owed>>

\* warm: whether there is still a reason to.
WarmCheck(g) ==
  /\ warm[g].pc = "check"
  /\ warm' = [warm EXCEPT ![g].pc = IF needed THEN "dial" ELSE "leave"]
  /\ UNCHANGED <<counters, conn, verdict, update, warming, needed, owed>>

\* ListenPacket with its limit of 15 seconds succeeds: close it, noteOK.
WarmUp(g) ==
  /\ warm[g].pc = "dial"
  /\ warm' = [warm EXCEPT ![g].pc = "leave"]
  /\ NoteOK
  /\ owed' = FALSE
  /\ UNCHANGED <<conn, update, warming, needed>>

\* mutant: one attempt too many.
FaultyWarmFails(g) ==
  /\ warm[g].pc = "dial"
  /\ \E noUDP \in BOOLEAN :
       warm' = [warm EXCEPT ![g] =
                  IF noUDP \/ @.try = WarmTries
                    THEN [@ EXCEPT !.pc = "leave"]
                    ELSE [pc |-> "check", try |-> @.try + 1]]
  /\ owed' = FALSE
  /\ UNCHANGED <<counters, conn, verdict, update, warming, needed>>

\* It fails: for good when the node has no UDP or this was the last attempt,
\* else after a pause it is tried again.
WarmFails(g) ==
  /\ warm[g].pc = "dial"
  /\ \E noUDP \in BOOLEAN :
       warm' = [warm EXCEPT ![g] =
                  IF noUDP \/ @.try = WarmTries - 1
                    THEN [@ EXCEPT !.pc = "leave"]
                    ELSE [pc |-> "check", try |-> @.try + 1]]
  /\ owed' = FALSE
  /\ UNCHANGED <<counters, conn, verdict, update, warming, needed>>

\* The deferred warming.Store(false), on every way out.
WarmLeave(g) ==
  /\ warm[g].pc = "leave"
  /\ warm' = [warm EXCEPT ![g] = Idle]
  /\ warming' = FALSE
  /\ UNCHANGED <<counters, conn, verdict, update, needed, owed>>

-----------------------------------------------------------------------------
(* The environment.                                                        *)

\* The user connects or disconnects, or another node takes over.
NeededChanges ==
  /\ needed' = ~needed
  /\ owed' = FALSE
  /\ UNCHANGED <<counters, conn, verdict, update, warmVars>>

\* Twenty seconds pass.  Goroutines that only compute have run by then; a dial, a
\* pause and an open stream may last.
Tick ==
  /\ verdict = "idle" /\ update = "idle"
  /\ \A c \in Conns : ~conn[c].failDue
  /\ sinceFirst' = Older(sinceFirst, SickWindow + 1)
  /\ sinceOK' = Older(sinceOK, HalfWindow)
  /\ sinceSick' = Older(sinceSick, SickCooldown)
  /\ tally' = [age \in 0 .. SickWindow |-> IF age = 0 THEN 0 ELSE tally[age - 1]]
  /\ conn' = [c \in Conns |-> IF conn[c].phase = "none" THEN conn[c]
               ELSE [conn[c] EXCEPT !.age = Older(@, HandshakeWindow + 1)]]
  /\ UNCHANGED <<fails, verdict, update, warmVars, needed, owed>>

-----------------------------------------------------------------------------
StreamStep(c) ==
  \/ Dial(c) \/ FirstData(c) \/ MoreData(c) \/ ServerReplied(c) \/ NoteErr(c)
  \/ Close(c) \/ Closed(c) \/ ReportFail(c)

TeardownStep ==
  TearSick \/ RebuiltSick \/ ResetFailures \/ RebuiltNetwork

WarmStep(g) ==
  WarmCheck(g) \/ WarmUp(g) \/ WarmFails(g) \/ WarmLeave(g)

SessionNext ==
  \/ \E c \in Conns : StreamStep(c)
  \/ DialFails
  \/ PacketOpens
  \/ TeardownStep
  \/ NetworkChanged
  \/ \E g \in Warmers : WarmStep(g)
  \/ NeededChanges
  \/ Tick

\* Goroutines that have been started run on: a warm's dial has a time limit and its
\* pauses are timers.
SessionFairness ==
  /\ WF_sessionVars(TeardownStep)
  /\ \A g \in Warmers : WF_sessionVars(WarmStep(g))

SessionSpec == SessionInit /\ [][SessionNext]_sessionVars /\ SessionFairness

-----------------------------------------------------------------------------
(* Properties.                                                             *)

SessionTypeOK ==
  /\ fails \in 0 .. SickFailures
  /\ sinceFirst \in 0 .. SickWindow + 1
  /\ sinceOK \in 0 .. HalfWindow
  /\ sinceSick \in 0 .. SickCooldown
  /\ conn \in [Conns -> Stream]
  /\ verdict \in Handler /\ update \in Handler
  /\ warming \in BOOLEAN /\ needed \in BOOLEAN /\ owed \in BOOLEAN
  /\ warm \in [Warmers -> [pc: WarmPcs, try: 0 .. WarmTries - 1]]
  /\ tally \in [0 .. SickWindow -> 0 .. SickFailures]

\* The failures of the last ticks: the i-th of an age is <<age, i>>.
FailuresOfLast(ticks) == {f \in (0 .. ticks) \X (1 .. SickFailures) : f[2] <= tally[f[1]]}
Counted == Cardinality(FailuresOfLast(SickWindow))

\* A session is condemned only for SickFailures failures that all happened within
\* the window, this one included, with no stream's first data and no other teardown
\* since the first of them, and only when nothing was received for half a window:
\* a wrong verdict cuts every connection of the machine.  tally counts the
\* failures by age, apart from the count and the instant the code keeps.
EarnedHere ==
  verdict = "idle" /\ verdict' = "tear"
    => Counted + 1 >= SickFailures /\ sinceOK >= HalfWindow

\* The other side: a burst of SickFailures failures on a session that has delivered
\* nothing for half a window is never overlooked, whatever older failures, expired
\* or not, the row began with; only a verdict that is too recent holds it back.
BurstIsNoticed ==
  \/ tally[0] < SickFailures
  \/ sinceOK < HalfWindow
  \/ sinceSick < SickCooldown

\* One stream is one failure at most, even if a write fails, a read fails and the
\* application closes it; and a stream that had data before it failed is none.
OneFailureHere ==
  \A c \in Conns :
    /\ conn'[c].failures <= 1
    /\ conn[c].got => conn'[c].failures <= conn[c].failures

\* A session is judged sick when, and only when, its streams earned it.
SickIsRight == [][BurstIsNoticed' /\ EarnedHere /\ OneFailureHere]_sessionVars

\* However verdicts, network changes and the user's switching come together, one
\* goroutine at most dials to warm the session up, and the flag says so.
OneWarmer ==
  /\ Cardinality({g \in Warmers : warm[g].pc # "idle"}) <= 1
  /\ warming <=> \E g \in Warmers : warm[g].pc # "idle"

\* The flag is given back on every way out of warm: left set, no session would be
\* warmed up again as long as the service runs.
WarmingEnds == warming ~> ~warming

\* What session_watch.go promises of a session torn down while in use: it is set up
\* again in the background at once.  It does not hold: see the README.
TornDownIsWarmed ==
  owed /\ needed /\ verdict = "idle" /\ update = "idle" => warming
=============================================================================
