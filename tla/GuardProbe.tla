------------------------------ MODULE GuardProbe ------------------------------
(***************************************************************************)
(* Runtime._guard_open: one probe of a service's onboarding state, by a    *)
(* thread that reads and a watchdog that shuts the socket at the deadline. *)
(* The service decides what it sends and when, and may stop, or not be     *)
(* there, at any point; the shut socket, and a connection that the service *)
(* itself closes inside a body of a stated length, end the body like its   *)
(* true end does.                                                          *)
(*                                                                         *)
(* A body is a number of chunks.  A whole body passes for a proof (the     *)
(* exact text of the 404, or the list with its one finished step) only if  *)
(* the onboarding is complete; what the watchdog cuts may look like        *)
(* anything.  A beginning of the list is no list.  The exact text may begin*)
(* a longer one: that a service which closes there is set up is trusted.   *)
(* OnboardingGuard has the probes' callers.                                *)
(***************************************************************************)
EXTENDS Naturals

CONSTANTS
    MaxBody,  \* 65536 bytes, in chunks: what the probe accepts
    MaxChunks \* bound: what a service sends

ASSUME BodyAssumption == MaxBody \in Nat /\ MaxChunks \in Nat

VARIABLES
    onboarded, \* the service's data: its onboarding is complete
    probe      \* the probe in progress

Probe == [pc: {"off", "connect", "headers", "body", "reading", "check", "decide", "join", "done"},
          code: {"none", "200", "404"}, length: 0 .. MaxChunks, got: 0 .. MaxChunks,
          late: BOOLEAN, timer: {"none", "armed", "expired", "shut", "cancelled"},
          expired: BOOLEAN, closed: BOOLEAN, open: BOOLEAN]

\* No probe.  late: the deadline has passed; timer: the watchdog; expired: the event it
\* sets; got: the chunks read; closed: the service has closed the connection inside the
\* body; open: what the probe returns.
Off == [pc |-> "off", code |-> "none", length |-> 0, got |-> 0, late |-> FALSE,
        timer |-> "none", expired |-> FALSE, closed |-> FALSE, open |-> FALSE]

BeginProbe == probe' = [Off EXCEPT !.pc = "connect"]

\* The watchdog has ended the connection.
Shut == probe.timer = "shut"

Proceed(pc) == probe' = [probe EXCEPT !.pc = pc]

\* return False, or an exception: what was read is dropped.
GiveUp == probe' = [probe EXCEPT !.pc = "join", !.code = "none", !.length = 0, !.got = 0,
                                 !.closed = FALSE]

-----------------------------------------------------------------------------
\* connect fails or runs into its timeout.
ConnectFails ==
    /\ probe.pc = "connect"
    /\ GiveUp
    /\ UNCHANGED onboarded

\* Connected: the watchdog starts with the time that is left.
StartWatchdog ==
    /\ probe.pc = "connect"
    /\ ~probe.late
    /\ probe' = [probe EXCEPT !.pc = "headers", !.timer = "armed"]
    /\ UNCHANGED onboarded

\* The status line and the headers are there, before the socket is shut.  An answer of
\* another status is as good as a 200 without the list.
ReadHeaders ==
    /\ probe.pc = "headers"
    /\ ~Shut
    /\ \E code \in {"200", "404"}, length \in 0 .. MaxChunks :
          probe' = [probe EXCEPT !.pc = "body", !.code = code, !.length = length]
    /\ UNCHANGED onboarded

\* The head of the loop: nothing more is read after the deadline or beyond the limit.
NextRead ==
    /\ probe.pc = "body"
    /\ IF probe.got <= MaxBody /\ probe.late
         THEN GiveUp
         ELSE Proceed(IF probe.got > MaxBody THEN "check" ELSE "reading")
    /\ UNCHANGED onboarded

\* read1 returns a chunk.
ReadChunk ==
    /\ probe.pc = "reading"
    /\ probe.got < probe.length
    /\ ~Shut
    /\ probe' = [probe EXCEPT !.pc = "body", !.got = @ + 1]
    /\ UNCHANGED onboarded

\* read1 returns nothing: the body is over,
EndOfBody ==
    /\ probe.pc = "reading"
    /\ probe.got = probe.length
    /\ ~Shut
    /\ Proceed("check")
    /\ UNCHANGED onboarded

\* or the service closes the connection in a body with a Content-Length, which read1 does
\* not tell from its end (a chunked body makes it raise),
PeerCloses ==
    /\ probe.pc = "reading"
    /\ probe.got < probe.length
    /\ ~Shut
    /\ probe' = [probe EXCEPT !.pc = "check", !.closed = TRUE]
    /\ UNCHANGED onboarded

\* or the socket is shut.
EndOfSocket ==
    /\ probe.pc = "reading"
    /\ Shut
    /\ Proceed("check")
    /\ UNCHANGED onboarded

\* A call fails: on the shut socket, on a reset, on a malformed answer or when the
\* socket's own timeout is over.
ReadFails ==
    /\ probe.pc \in {"headers", "reading"}
    /\ GiveUp
    /\ UNCHANGED onboarded

\* A slip: only the size of the body is checked.
CheckSize ==
    /\ probe.pc = "check"
    /\ IF probe.got > MaxBody THEN GiveUp ELSE Proceed("decide")
    /\ UNCHANGED onboarded

\* expired.is_set() or time.monotonic() >= deadline or the body is too long.
Check ==
    /\ probe.pc = "check"
    /\ IF probe.expired \/ probe.late \/ probe.got > MaxBody THEN GiveUp ELSE Proceed("decide")
    /\ UNCHANGED onboarded

\* The body may pass for a proof.
LooksDone ==
    /\ probe.got = probe.length \/ probe.closed => onboarded
    /\ probe.got < probe.length => probe.code = "404"

\* 404: the exact body. 200: the list, and a last look at the event and the clock.
DecideOpen ==
    /\ probe.pc = "decide"
    /\ LooksDone
    /\ \/ probe.code = "404"
       \/ probe.code = "200" /\ ~probe.expired /\ ~probe.late
    /\ probe' = [probe EXCEPT !.pc = "join", !.open = TRUE]
    /\ UNCHANGED onboarded

\* What was read is no proof.
DecideClosed ==
    /\ probe.pc = "decide"
    /\ GiveUp
    /\ UNCHANGED onboarded

\* finally: the watchdog is cancelled, or what it has begun is waited for.
Join ==
    /\ probe.pc = "join"
    /\ probe.timer # "expired"
    /\ probe' = [probe EXCEPT !.pc = "done",
                              !.timer = IF @ = "armed" THEN "cancelled" ELSE @]
    /\ UNCHANGED onboarded

-----------------------------------------------------------------------------
DeadlinePasses ==
    /\ probe.pc \notin {"off", "done"}
    /\ ~probe.late
    /\ probe' = [probe EXCEPT !.late = TRUE]
    /\ UNCHANGED onboarded

\* interrupt_probe: the event first,
SetExpired ==
    /\ probe.timer = "armed" /\ probe.late
    /\ probe' = [probe EXCEPT !.timer = "expired", !.expired = TRUE]
    /\ UNCHANGED onboarded

\* A slip: the watchdog leaves the socket open.
LeaveOpen ==
    /\ probe.timer = "expired"
    /\ probe' = [probe EXCEPT !.timer = "cancelled"]
    /\ UNCHANGED onboarded

\* then the socket.
ShutSocket ==
    /\ probe.timer = "expired"
    /\ probe' = [probe EXCEPT !.timer = "shut"]
    /\ UNCHANGED onboarded

\* What needs the service or a timeout of the socket, and what the reader does by itself.
Service == ReadHeaders \/ ReadChunk \/ EndOfBody \/ PeerCloses \/ ReadFails
Reader == \/ ConnectFails \/ StartWatchdog \/ NextRead \/ EndOfSocket \/ Check
          \/ DecideOpen \/ DecideClosed \/ Join
Watchdog == SetExpired \/ ShutSocket

ProbeStep == Service \/ Reader \/ DeadlinePasses \/ Watchdog

-----------------------------------------------------------------------------
\* A body that the watchdog or the size limit has cut never opens the guard, however much
\* its beginning looks like a proof: it is whole, or the service has ended a 404 early.
CutNeverOpens ==
    probe.open =>
       /\ probe.got = probe.length \/ (probe.closed /\ probe.code = "404")
       /\ probe.got <= MaxBody
=============================================================================
