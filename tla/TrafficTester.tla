--------------------------- MODULE TrafficTester ---------------------------
(***************************************************************************)
(* chutney's TrafficTester (lib/chutney/Traffic.py): one select() loop     *)
(* that accepts connections on a listener, lets every Source connect       *)
(* (directly or through a SOCKSv4 proxy such as Tor) and send its data, and *)
(* lets every Sink read what arrives and compare it with the expected      *)
(* data.  A TestSuite counts the pending, succeeded and failed tests.      *)
(*                                                                         *)
(* Each source s has one stream; the sink of s is the end of that stream   *)
(* the listener accepts.  Data are abstracted to byte counts: DataLen      *)
(* bytes of data, SocksLen bytes of SOCKS command, HandLen bytes of proxy  *)
(* reply (8 in the code); bad[s] says the source's buffer differs from the *)
(* data the sinks expect.  The network (connect outcome, proxy reply,      *)
(* delivery, a stream torn down) is the environment, with no fairness.     *)
(***************************************************************************)
EXTENDS Integers, FiniteSets, FiniteSetsExt

CONSTANTS
  Sources,   \* the Source peers added to the tester
  Proxied,   \* the sources created with a proxy
  DataLen,   \* len(tt.data)
  HandLen,   \* the proxy reply length the source waits for
  SocksLen,  \* len(socks_cmd(dest))
  Timeout,   \* the timeout argument of TrafficTester
  Closable   \* the sources whose stream the network may tear down

Listener == <<"listener">>
SinkOf(s) == <<"sink", s>>
SourceOf(s) == <<"source", s>>

VARIABLES
  pc,         \* "loop", "dispatch" (the for loops over select's result),
              \* "exit" (run returned), "crashed" (an exception left run)
  rq, wq,     \* the readable fds and writable sources select returned
  timeout,    \* self.timeout
  notDone, successes, failures,  \* the TestSuite
  st,         \* Source.state: "connecting", "proxy", "connected", "removed"
  outb,       \* len(Source.outbuf)
  hin,        \* len(Source.inbuf): proxy reply bytes read
  sinkSt,     \* "none" (not accepted), "open", "ok", "failed" (removed)
  sin,        \* len(Sink.inbuf)
  net,        \* the nonblocking connect: "pending", "up", "refused"
  reply,      \* the proxy's reply: "none", "ok", "fail"
  avail,      \* proxy reply bytes readable on the source
  backlog,    \* streams waiting in the listen queue
  toSink,     \* data bytes in flight towards the sink
  closed,     \* the stream was torn down
  bad         \* the source sends other bytes than tt.data

vars == <<pc, rq, wq, timeout, notDone, successes, failures, st, outb, hin,
          sinkSt, sin, net, reply, avail, backlog, toSink, closed, bad>>
loopVars == <<rq, wq, timeout, notDone, successes, failures, st, outb, hin,
              sinkSt, sin>>
netVars == <<net, reply, avail, backlog, toSink, closed, bad>>

\* A new TestSuite, then one tests.add() per source added
TestSuiteInit ==
  notDone = Cardinality(Sources) /\ successes = 0 /\ failures = 0

\* Source.__init__: empty buffers; connect() starts the nonblocking connect
\* (to the proxy if there is one) and leaves the state CONNECTING
SourceInit ==
  /\ st = [s \in Sources |-> "connecting"] /\ outb = [s \in Sources |-> 0]
  /\ hin = [s \in Sources |-> 0]

\* TrafficTester.__init__ and add() of every source
Init ==
  /\ pc = "loop" /\ rq = {} /\ wq = {} /\ timeout = Timeout
  /\ TestSuiteInit /\ SourceInit
  /\ sinkSt = [s \in Sources |-> "none"] /\ sin = [s \in Sources |-> 0]
  /\ net = [s \in Sources |-> "pending"] /\ reply = [s \in Sources |-> "none"]
  /\ avail = [s \in Sources |-> 0] /\ backlog = {}
  /\ toSink = [s \in Sources |-> 0] /\ closed = [s \in Sources |-> FALSE]
  /\ bad \in [Sources -> BOOLEAN]

\* TestSuite.all_done
AllDone == notDone = 0

\* TestSuite.success / failure, and TrafficTester.remove of a source
Success == notDone' = notDone - 1 /\ successes' = successes + 1 /\ UNCHANGED failures
Failure == notDone' = notDone - 1 /\ failures' = failures + 1 /\ UNCHANGED successes
NoVerdict == UNCHANGED <<notDone, successes, failures>>
RemoveSourceKeep(s) == UNCHANGED st
RemoveSource(s) == st' = [st EXCEPT ![s] = "removed"]

(***************************************************************************)
(* What select() reports.                                                  *)
(***************************************************************************)

\* A source socket is readable with proxy reply bytes, at EOF of a torn
\* down stream, or with the error of a refused connect pending
SourceReadable(s) ==
  /\ st[s] # "removed"
  /\ \/ st[s] = "proxy" /\ avail[s] > 0
     \/ closed[s]
     \/ st[s] = "connecting" /\ net[s] = "refused"

\* A sink is readable with data in flight or at EOF
SinkReadable(s) == sinkSt[s] = "open" /\ (toSink[s] > 0 \/ closed[s])

Readable ==
  (IF backlog # {} THEN {Listener} ELSE {})
    \cup {SourceOf(s) : s \in {x \in Sources : SourceReadable(x)}}
    \cup {SinkOf(s) : s \in {x \in Sources : SinkReadable(x)}}

\* Source.want_to_write, and the socket writable: a connect that has
\* completed (either way), or room in the send buffer
WantToWrite(s) == st[s] = "connecting" \/ (st[s] # "removed" /\ outb[s] > 0)
Writable == {s \in Sources : WantToWrite(s) /\ (st[s] # "connecting" \/ net[s] # "pending")}

(***************************************************************************)
(* run(): the while loop.                                                  *)
(***************************************************************************)

\* "sets = select.select(rset, wset, [], 1)" with something ready
Select ==
  /\ pc = "loop" /\ ~AllDone /\ timeout > 0
  /\ Readable \cup Writable # {}
  /\ rq' = Readable /\ wq' = Writable /\ pc' = "dispatch"
  /\ UNCHANGED <<timeout, notDone, successes, failures, st, outb, hin, sinkSt, sin>>
  /\ UNCHANGED netVars

\* select returned empty sets: "self.timeout -= 1; continue"
TickNoDecrement == timeout
NextTimeout == timeout - 1

Tick ==
  /\ pc = "loop" /\ ~AllDone /\ timeout > 0
  /\ Readable \cup Writable = {}
  /\ timeout' = NextTimeout
  /\ UNCHANGED <<pc, rq, wq, notDone, successes, failures, st, outb, hin, sinkSt, sin>>
  /\ UNCHANGED netVars

\* The loop condition fails: close everything and return the verdict
Exit ==
  /\ pc = "loop" /\ (AllDone \/ timeout <= 0)
  /\ pc' = "exit"
  /\ UNCHANGED loopVars /\ UNCHANGED netVars

\* "return self.tests.all_done() and self.tests.failure_count() == 0"
Result == AllDone /\ failures = 0

(***************************************************************************)
(* The readable fds, in the order select lists them.                       *)
(***************************************************************************)

Dispatching(x) == pc = "dispatch" /\ x \in rq /\ rq' = rq \ {x} /\ UNCHANGED wq

\* Listener.accept: one stream from the listen queue becomes a Sink
Accept ==
  /\ Dispatching(Listener)
  /\ \E s \in backlog :
       /\ backlog' = backlog \ {s}
       /\ sinkSt' = [sinkSt EXCEPT ![s] = "open"]
  /\ UNCHANGED <<pc, timeout, notDone, successes, failures, st, outb, hin, sin>>
  /\ UNCHANGED <<net, reply, avail, toSink, closed, bad>>

\* Sink.on_readable (verify): "self.inbuf += self.s.recv(len(data) -
\* len(self.inbuf))", at EOF nothing; once the inbuf is as long as the data
\* it is compared: -1 (failure) or 0 (success), and the sink is removed;
\* otherwise the bytes still missing (> 0) and the sink stays
SinkRead(s) ==
  /\ Dispatching(SinkOf(s))
  /\ \/ /\ \E k \in IF toSink[s] > 0 THEN 1 .. Min({toSink[s], DataLen - sin[s]}) ELSE {0} :
           LET got == sin[s] + k IN
           /\ sin' = [sin EXCEPT ![s] = got]
           /\ toSink' = [toSink EXCEPT ![s] = @ - k]
           /\ \/ got < DataLen /\ NoVerdict /\ UNCHANGED sinkSt
              \/ got = DataLen /\ bad[s] /\ Failure /\ sinkSt' = [sinkSt EXCEPT ![s] = "failed"]
              \/ got = DataLen /\ ~bad[s] /\ Success /\ sinkSt' = [sinkSt EXCEPT ![s] = "ok"]
        /\ UNCHANGED pc
     \* a stream the exit reset rather than closed: recv raises
     \* socket.error (ECONNRESET), which nothing catches
     \/ /\ closed[s] /\ toSink[s] = 0 /\ pc' = "crashed"
        /\ UNCHANGED <<sin, toSink, sinkSt>> /\ NoVerdict
  /\ UNCHANGED <<timeout, st, outb, hin, net, reply, avail, backlog, closed, bad>>

\* Source.on_readable: only while CONNECTING_THROUGH_PROXY does it read
\* ("recv(8 - len(self.inbuf))"); a complete reply with status 0x5a makes
\* it CONNECTED with the data as outbuf (1: keep), any other status is a
\* failure (-1: tests.failure and remove); in every other state, and with
\* the reply incomplete, it returns > 0 and the source stays
SourceRead(s) ==
  /\ Dispatching(SourceOf(s))
  /\ \/ /\ st[s] # "proxy" /\ UNCHANGED <<pc, st, outb, hin, avail>> /\ NoVerdict
     \/ /\ st[s] = "proxy" /\ UNCHANGED pc
        /\ \E k \in IF avail[s] > 0 THEN 1 .. Min({avail[s], HandLen - hin[s]}) ELSE {0} :
             LET h == hin[s] + k IN
             /\ avail' = [avail EXCEPT ![s] = @ - k]
             /\ \/ h < HandLen /\ hin' = [hin EXCEPT ![s] = h]
                   /\ UNCHANGED <<st, outb>> /\ NoVerdict
                \/ h = HandLen /\ reply[s] = "ok" /\ hin' = [hin EXCEPT ![s] = 0]
                   /\ st' = [st EXCEPT ![s] = "connected"]
                   /\ outb' = [outb EXCEPT ![s] = DataLen] /\ NoVerdict
                \/ h = HandLen /\ reply[s] = "fail" /\ hin' = [hin EXCEPT ![s] = h]
                   /\ RemoveSource(s) /\ UNCHANGED outb /\ Failure
     \* recv on a stream the exit reset raises socket.error (ECONNRESET)
     \/ /\ st[s] = "proxy" /\ closed[s] /\ avail[s] = 0 /\ pc' = "crashed"
        /\ UNCHANGED <<st, outb, hin, avail>> /\ NoVerdict
  /\ UNCHANGED <<timeout, sinkSt, sin, net, reply, backlog, toSink, closed, bad>>

(***************************************************************************)
(* The writable sources, after every readable fd.                          *)
(***************************************************************************)

\* What a finished write (on_writable returned 0) does to the TestSuite:
\* "if n == 0: self.remove(p)", no verdict; the sink gives it
WriteVerdictSuccess(left) == IF left = 0 THEN Success ELSE NoVerdict
WriteVerdict(left) == NoVerdict

\* Source.on_writable.  A completed connect first becomes CONNECTED with the
\* data as outbuf, or CONNECTING_THROUGH_PROXY with the SOCKS command.
\* Then "n = self.s.send(self.outbuf)": ECONNREFUSED is -1 (failure and
\* remove); another socket.error (the stream torn down) propagates out of
\* run(); otherwise n >= 1 bytes leave and the rest stays in outbuf.  Through
\* the proxy it returns 1; else len(outbuf), and at 0 the source is removed.
SourceWrite(s) ==
  LET prox == s \in Proxied
      st1  == IF st[s] = "connecting" THEN IF prox THEN "proxy" ELSE "connected" ELSE st[s]
      ob1  == IF st[s] = "connecting" THEN IF prox THEN SocksLen ELSE DataLen ELSE outb[s]
  IN
  /\ pc = "dispatch" /\ rq = {} /\ s \in wq /\ wq' = wq \ {s}
  /\ st[s] # "removed"
  /\ \/ net[s] = "refused" /\ RemoveSource(s) /\ outb' = [outb EXCEPT ![s] = ob1]
        /\ Failure /\ UNCHANGED <<pc, toSink>>
     \/ net[s] = "up" /\ closed[s] /\ pc' = "crashed"
        /\ UNCHANGED <<st, outb, toSink>> /\ NoVerdict
     \/ net[s] = "up" /\ UNCHANGED pc
        /\ \E n \in 1 .. ob1 :
             LET left == ob1 - n IN
             /\ outb' = [outb EXCEPT ![s] = left]
             /\ st' = [st EXCEPT ![s] = IF st1 # "proxy" /\ left = 0 THEN "removed" ELSE st1]
             /\ toSink' = IF st1 = "connected" /\ ~closed[s]
                          THEN [toSink EXCEPT ![s] = @ + n] ELSE toSink
             /\ IF st1 = "proxy" THEN NoVerdict ELSE WriteVerdict(left)
  /\ UNCHANGED <<rq, timeout, hin, sinkSt, sin, net, reply, avail, backlog, closed, bad>>

\* Both for loops are over: back to the while condition.  A writable source
\* removed by the read loop is skipped ("p = self.peers.get(fd)" is None).
EndDispatch ==
  /\ pc = "dispatch" /\ rq = {} /\ \A s \in wq : st[s] = "removed"
  /\ pc' = "loop" /\ wq' = {}
  /\ UNCHANGED <<rq, timeout, notDone, successes, failures, st, outb, hin, sinkSt, sin>>
  /\ UNCHANGED netVars

(***************************************************************************)
(* The network.                                                            *)
(***************************************************************************)

\* The nonblocking connect completes or is refused; a direct stream then
\* waits in the listener's queue
ConnectResult(s) ==
  /\ net[s] = "pending"
  /\ \E r \in {"up", "refused"} :
       /\ net' = [net EXCEPT ![s] = r]
       /\ backlog' = IF r = "up" /\ s \notin Proxied THEN backlog \cup {s} ELSE backlog
  /\ UNCHANGED <<pc, loopVars, reply, avail, toSink, closed, bad>>

\* Having read the whole SOCKS command, the proxy answers with HandLen
\* bytes; on success it has opened the stream to the listener
ProxyReply(s) ==
  /\ s \in Proxied /\ st[s] = "proxy" /\ outb[s] = 0 /\ reply[s] = "none"
  /\ \E r \in {"ok", "fail"} :
       /\ reply' = [reply EXCEPT ![s] = r]
       /\ backlog' = IF r = "ok" THEN backlog \cup {s} ELSE backlog
  /\ avail' = [avail EXCEPT ![s] = HandLen]
  /\ UNCHANGED <<pc, loopVars, net, toSink, closed, bad>>

\* A stream to the listener is torn down (an exit relay closing it)
Close(s) ==
  /\ s \in Closable /\ ~closed[s]
  /\ s \in backlog \/ sinkSt[s] = "open"
  /\ closed' = [closed EXCEPT ![s] = TRUE]
  /\ UNCHANGED <<pc, loopVars, net, reply, avail, backlog, toSink, bad>>

\* run() has returned or raised
Returned ==
  /\ pc \in {"exit", "crashed"}
  /\ UNCHANGED vars

LoopStep ==
  \/ Select \/ Tick \/ Exit \/ Accept \/ EndDispatch
  \/ \E s \in Sources : SinkRead(s) \/ SourceRead(s) \/ SourceWrite(s)

Next ==
  \/ LoopStep
  \/ \E s \in Sources : ConnectResult(s) \/ ProxyReply(s) \/ Close(s)
  \/ Returned

\* run() is one thread that never blocks longer than select's one second:
\* its loop keeps taking steps.  The network owes nothing.
Spec == Init /\ [][Next]_vars /\ WF_vars(LoopStep)

(***************************************************************************)
(* Properties.                                                             *)
(***************************************************************************)

\* Every counter of the TestSuite stays in range: in particular not_done
\* never drops below 0, i.e. no source is given two verdicts (a removal
\* in on_readable / on_writable that did not happen would give another)
TypeOK ==
  /\ pc \in {"loop", "dispatch", "exit", "crashed"}
  /\ notDone \in 0 .. Cardinality(Sources)
  /\ successes + failures + notDone = Cardinality(Sources)
  /\ timeout \in 0 .. Timeout
  /\ st \in [Sources -> {"connecting", "proxy", "connected", "removed"}]
  /\ sinkSt \in [Sources -> {"none", "open", "ok", "failed"}]
  /\ sin \in [Sources -> 0 .. DataLen] /\ toSink \in [Sources -> 0 .. DataLen]
  /\ hin \in [Sources -> 0 .. HandLen] /\ outb \in [Sources -> 0 .. DataLen]

\* run() returns True only if every source's data reached a sink that
\* verified it (the docstring: "Return True if all tests succeed"): the
\* TestSuite's count must not reach 0 before every stream was checked
ResultSound ==
  pc = "exit" /\ Result => \A s \in Sources : sinkSt[s] = "ok" /\ ~bad[s]

\* run() returns or raises ("Time out after self.timeout seconds")
Terminates == <>(pc \in {"exit", "crashed"})

\* The same, for runs in which no stream is torn down
TerminatesIfNoClose ==
  [](\A s \in Sources : ~closed[s]) => <>(pc \in {"exit", "crashed"})

=============================================================================
