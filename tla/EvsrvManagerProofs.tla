------------------------- MODULE EvsrvManagerProofs -------------------------
(***************************************************************************)
(* What is true of EvsrvManager for any number of servers and connections. *)
(***************************************************************************)
EXTENDS EvsrvManager, FiniteSetTheorems, TLAPS

Ends == {"GRACEFULLY_STOPPING", "STOPPED"}

\* Whatever is asked of the manager: a report needs stopped_srvs to come to
\* srvs_len, which it does once only, and only servers that accept can be left
\* out by a graceful stop that comes later.
Sound ==
  /\ \A s \in Servers : srvs[s].open # {} => srvs[s].state \in {"ACCEPTING", "GRACEFULLY_STOPPING"}
  /\ mgr.reports \in {0, 1}
  /\ loop.at # "none" => mgr.srvs_len # 0
  /\ mgr.reports = 1 => mgr.stopped_srvs >= SrvsLen /\ mgr.state \in Ends
  /\ \A s \in Servers : srvs[s].state = "GRACEFULLY_STOPPING" => mgr.state \in Ends
  /\ loop.at # "graceful_stop" /\ mgr.state \in Ends =>
       \A s \in Servers : srvs[s].state # "ACCEPTING"
  /\ loop.at = "graceful_stop" =>
       mgr.state \in Ends /\ \A s \in Servers : s < loop.i => srvs[s].state # "ACCEPTING"
  /\ loop.at = "graceful_stop" /\ mgr.state = "GRACEFULLY_STOPPING" /\ mgr.reports = 1 =>
       /\ \A s \in Servers : srvs[s].state # "ACCEPTING"
       /\ loop.i = 1 \/ mgr.stopped_srvs > SrvsLen

Matches ==
  /\ mgr.active_srvs = Cardinality(InState({"ACCEPTING", "GRACEFULLY_STOPPING"}))
  /\ mgr.stopped_srvs = Cardinality(InState({"STOPPED"}))

\* One graceful stop: the servers before the loop have ended or drain, those
\* behind it have never been stopped.
Ordered ==
  /\ loop.at # "stop"
  /\ mgr.srvs_len # 0 /\ mgr.state \notin Ends /\ loop.at # "destroy" =>
       \A s \in Servers : /\ srvs[s].state \notin Ends
                          /\ mgr.state # "ACCEPTING" => srvs[s].state # "ACCEPTING"
  /\ loop.at = "graceful_stop" =>
       /\ \A s \in Servers : srvs[s].state \in Ends <=> s < loop.i
       /\ mgr.state = "GRACEFULLY_STOPPING" => mgr.reports = 0
  /\ loop.at # "graceful_stop" /\ mgr.state \in Ends =>
       \A s \in Servers : srvs[s].state \in Ends
  /\ mgr.srvs_len # 0 /\ (loop.at # "destroy" \/ mgr.state \in Ends) => Matches
  /\ mgr.reports = 1 => \A s \in Servers : srvs[s].state = "STOPPED"
  /\ loop.at # "graceful_stop" /\ mgr.state = "GRACEFULLY_STOPPING" /\ mgr.reports = 0 =>
       \E s \in Servers : srvs[s].state = "GRACEFULLY_STOPPING"

\* The inductive invariant.
IInv == TypeOK /\ Sound /\ (OneStop => Ordered)
-----------------------------------------------------------------------------
(* One server, one step of the manager.                                    *)

SetServer(v, q, o, n) == [ v EXCEPT !.state = q, !.open = o, !.told = n ]
SetManager(m, q, a, n, r) ==
  [ m EXCEPT !.state = q, !.active_srvs = a, !.stopped_srvs = n, !.reports = r ]

LEMMA ServerTyped ==
  ASSUME NEW v \in Server, NEW q \in States, NEW o \in SUBSET Conns, NEW n \in Nat
  PROVE  /\ SetServer(v, q, o, n) \in Server
         /\ SetServer(v, q, o, n).state = q /\ SetServer(v, q, o, n).open = o
BY DEF SetServer, Server

LEMMA ManagerTyped ==
  ASSUME NEW m \in Manager, NEW q \in ManagerStates, NEW a \in Int, NEW n \in Nat, NEW r \in Nat
  PROVE  /\ SetManager(m, q, a, n, r) \in Manager
         /\ SetManager(m, q, a, n, r).srvs_len = m.srvs_len
         /\ SetManager(m, q, a, n, r).state = q
         /\ SetManager(m, q, a, n, r).active_srvs = a
         /\ SetManager(m, q, a, n, r).stopped_srvs = n
         /\ SetManager(m, q, a, n, r).reports = r
BY DEF SetManager, Manager

LEMMA StopsTyped ==
  ASSUME NEW v \in Server
  PROVE  /\ Ended(v) \in Server /\ Ended(v).state = "STOPPED" /\ Ended(v).open = {}
         /\ Stopped(v) \in Server /\ Stopped(v).state = "STOPPED" /\ Stopped(v).open = {}
<1>1. "STOPPED" \in States /\ {} \in SUBSET Conns /\ v.told \in Nat /\ v.told + 1 \in Nat
  BY DEF States, Server
<1>2. /\ Ended(v) = SetServer(v, "STOPPED", {}, v.told + 1)
      /\ StopsUntold(v) = SetServer(v, "STOPPED", {}, v.told)
  BY DEF Ended, StopsUntold, SetServer, Server
<1> QED BY <1>1, <1>2, ServerTyped DEF Stopped

LEMMA DrainedTyped ==
  ASSUME NEW v \in Server, NEW rest \in SUBSET Conns
  PROVE  /\ Drained(v, rest) \in Server
         /\ rest = {} => Drained(v, rest).state = "STOPPED" /\ Drained(v, rest).open = {}
         /\ rest # {} => Drained(v, rest).state = "GRACEFULLY_STOPPING"
<1>1. CASE rest = {} BY <1>1, StopsTyped DEF Drained
<1>2. CASE rest # {}
  <2>1. Drained(v, rest) = SetServer(v, "GRACEFULLY_STOPPING", rest, v.told)
    BY <1>2 DEF Drained, SetServer, Server
  <2>2. "GRACEFULLY_STOPPING" \in States /\ v.told \in Nat BY DEF States, Server
  <2> QED BY <1>2, <2>1, <2>2, ServerTyped
<1> QED BY <1>1, <1>2

LEMMA Callback ==
  ASSUME NEW m \in Manager
  PROVE  /\ GracefulStopCb(m) \in Manager
         /\ GracefulStopCb(m).srvs_len = m.srvs_len
         /\ GracefulStopCb(m).active_srvs = m.active_srvs - 1
         /\ GracefulStopCb(m).stopped_srvs = m.stopped_srvs + 1
         /\ m.stopped_srvs + 1 = SrvsLen =>
              GracefulStopCb(m).state = "STOPPED" /\ GracefulStopCb(m).reports = m.reports + 1
         /\ m.stopped_srvs + 1 # SrvsLen =>
              GracefulStopCb(m).state = m.state /\ GracefulStopCb(m).reports = m.reports
<1>1. m.active_srvs \in Int /\ m.stopped_srvs \in Nat /\ m.reports \in Nat
  BY DEF Manager
<1>2. m.state \in ManagerStates /\ "STOPPED" \in ManagerStates BY DEF Manager, ManagerStates
<1>3. PICK a \in Int, n \in Nat, r \in Nat, k \in Nat, q \in ManagerStates :
        /\ a = m.active_srvs - 1 /\ n = m.stopped_srvs + 1
        /\ r = m.reports /\ k = m.reports + 1 /\ q = m.state
  BY <1>1, <1>2
<1>4. /\ CountStopped(m) = SetManager(m, q, a, n, r)
      /\ ReportStopped(CountStopped(m)) = SetManager(m, "STOPPED", a, n, k)
  BY <1>3 DEF ReportStopped, CountStopped, SetManager, Manager
<1>5. GracefulStopCb(m) = IF n = SrvsLen THEN SetManager(m, "STOPPED", a, n, k)
                          ELSE SetManager(m, q, a, n, r)
  BY <1>3, <1>4 DEF GracefulStopCb, AllStopped
<1>6. /\ SetManager(m, "STOPPED", a, n, k) \in Manager /\ SetManager(m, "STOPPED", a, n, k).srvs_len = m.srvs_len
      /\ SetManager(m, "STOPPED", a, n, k).state = "STOPPED"
      /\ SetManager(m, "STOPPED", a, n, k).active_srvs = a /\ SetManager(m, "STOPPED", a, n, k).stopped_srvs = n
      /\ SetManager(m, "STOPPED", a, n, k).reports = k
  BY <1>2, ManagerTyped
<1>7. /\ SetManager(m, q, a, n, r) \in Manager /\ SetManager(m, q, a, n, r).srvs_len = m.srvs_len
      /\ SetManager(m, q, a, n, r).state = q
      /\ SetManager(m, q, a, n, r).active_srvs = a /\ SetManager(m, q, a, n, r).stopped_srvs = n
      /\ SetManager(m, q, a, n, r).reports = r
  BY ManagerTyped
<1> QED BY <1>3, <1>5, <1>6, <1>7

LEMMA Emptied ==
  ASSUME NEW m \in Manager, NEW e, e = [ m EXCEPT !.srvs_len = 0, !.active_srvs = 0 ]
  PROVE  /\ e \in Manager /\ e.srvs_len = 0
         /\ e.state = m.state /\ e.reports = m.reports /\ e.stopped_srvs = m.stopped_srvs
<1>1. 0 \in {0, SrvsLen} /\ 0 \in Int OBVIOUS
<1> QED BY <1>1 DEF Manager

LEMMA Counted ==
  ASSUME NEW m \in Manager
  PROVE  /\ CountIdle(m) \in Manager
         /\ CountIdle(m).srvs_len = m.srvs_len /\ CountIdle(m).active_srvs = m.active_srvs
         /\ CountIdle(m).stopped_srvs = m.stopped_srvs + 1
         /\ CountIdle(m).state = m.state /\ CountIdle(m).reports = m.reports
BY DEF CountIdle, Manager
-----------------------------------------------------------------------------
(* Counting servers.                                                       *)

LEMMA ServersFinite == IsFiniteSet(Servers) /\ Cardinality(Servers) = SrvsLen
BY FS_Interval, ManagerAssumption DEF Servers

With(f, S) == { s \in Servers : f[s].state \in S }

LEMMA WithFinite ==
  ASSUME NEW f, NEW S
  PROVE  IsFiniteSet(With(f, S)) /\ Cardinality(With(f, S)) \in Nat
BY ServersFinite, FS_Subset, FS_CardinalityType DEF With

\* One server changes its state from g to f, into S or out of it.
LEMMA OneMoves ==
  ASSUME NEW f, NEW g, NEW S, NEW s \in Servers,
         \A t \in Servers : t # s => g[t] = f[t]
  PROVE  /\ f[s].state \notin S /\ g[s].state \in S =>
              Cardinality(With(g, S)) = Cardinality(With(f, S)) + 1
         /\ f[s].state \in S /\ g[s].state \notin S =>
              Cardinality(With(g, S)) = Cardinality(With(f, S)) - 1
         /\ (f[s].state \in S <=> g[s].state \in S) =>
              Cardinality(With(g, S)) = Cardinality(With(f, S))
<1>1. CASE f[s].state \notin S /\ g[s].state \in S
  <2>1. With(g, S) = With(f, S) \cup {s} /\ s \notin With(f, S) BY <1>1 DEF With
  <2> QED BY <1>1, <2>1, WithFinite, FS_AddElement
<1>2. CASE f[s].state \in S /\ g[s].state \notin S
  <2>1. With(g, S) = With(f, S) \ {s} /\ s \in With(f, S) BY <1>2 DEF With
  <2> QED BY <1>2, <2>1, WithFinite, FS_RemoveElement
<1>3. CASE f[s].state \in S <=> g[s].state \in S
  <2>1. With(g, S) = With(f, S) BY <1>3 DEF With
  <2> QED BY <1>3, <2>1
<1> QED BY <1>1, <1>2, <1>3

\* The count of the stopped servers is srvs_len when all have stopped.
LEMMA AllCounted ==
  ASSUME NEW f
  PROVE  Cardinality(With(f, {"STOPPED"})) = SrvsLen <=> \A s \in Servers : f[s].state = "STOPPED"
<1>1. With(f, {"STOPPED"}) \subseteq Servers BY DEF With
<1>2. ASSUME Cardinality(With(f, {"STOPPED"})) = SrvsLen PROVE With(f, {"STOPPED"}) = Servers
  BY <1>1, <1>2, ServersFinite, FS_Subset
<1>3. With(f, {"STOPPED"}) = Servers <=> \A s \in Servers : f[s].state = "STOPPED" BY DEF With
<1> QED BY <1>2, <1>3, ServersFinite
-----------------------------------------------------------------------------
(* Rounds of the loops.                                                    *)

LEMMA AfterStopFacts ==
  ASSUME TypeOK, NEW s \in Servers
  PROVE  /\ AfterStop(s) \in Manager
         /\ AfterStop(s).srvs_len = mgr.srvs_len
         /\ srvs[s].state # "GRACEFULLY_STOPPING" => AfterStop(s) = mgr
         /\ srvs[s].state = "GRACEFULLY_STOPPING" =>
              /\ AfterStop(s).active_srvs = mgr.active_srvs - 1
              /\ AfterStop(s).stopped_srvs = mgr.stopped_srvs + 1
              /\ mgr.stopped_srvs + 1 = SrvsLen =>
                   AfterStop(s).state = "STOPPED" /\ AfterStop(s).reports = mgr.reports + 1
              /\ mgr.stopped_srvs + 1 # SrvsLen =>
                   AfterStop(s).state = mgr.state /\ AfterStop(s).reports = mgr.reports
BY Callback DEF AfterStop, Draining, TypeOK

LEMMA StopServerFacts ==
  ASSUME TypeOK, NEW s \in Servers, StopServer(s)
  PROVE  /\ srvs' \in [ Servers -> Server ] /\ fault' \in BOOLEAN
         /\ srvs'[s].state = "STOPPED" /\ srvs'[s].open = {}
         /\ \A t \in Servers : t # s => srvs'[t] = srvs[t]
<1>1. srvs[s] \in Server BY DEF TypeOK
<1>2. Stopped(srvs[s]) \in Server BY <1>1, StopsTyped
<1>3. srvs' = [ srvs EXCEPT ![s] = Stopped(srvs[s]) ] BY DEF StopServer
<1>4. /\ srvs' \in [ Servers -> Server ] /\ srvs'[s] = Stopped(srvs[s])
      /\ \A t \in Servers : t # s => srvs'[t] = srvs[t]
  BY <1>2, <1>3 DEF TypeOK
<1>5. fault' \in BOOLEAN BY <1>1 DEF StopServer, TypeOK, Server
<1> QED BY <1>1, <1>4, <1>5, StopsTyped

LEMMA RoundFacts ==
  ASSUME TypeOK, NEW l \in Loops, NEW s \in Servers, Round(l, s)
  PROVE  /\ loop.at = l /\ loop.i = s
         /\ loop' \in [ at : Loops, i : 1 .. SrvsLen + 1 ] /\ loop'.at = l /\ loop'.i = s + 1
BY ManagerAssumption DEF TypeOK, Round, Runs, Servers

LEMMA EndFacts ==
  ASSUME TypeOK, NEW l \in Loops, End(l)
  PROVE  /\ loop.at = l /\ loop.i = SrvsLen + 1
         /\ loop' \in [ at : Loops, i : 1 .. SrvsLen + 1 ] /\ loop'.at = "none"
BY ManagerAssumption DEF TypeOK, End, Runs, Loops

LEMMA StopOneKeeps ==
  ASSUME IInv, NEW s \in Servers, StopOne(s) PROVE IInv'
<1>1. Round("stop", s) /\ StopServer(s) /\ mgr' = CountIdle(AfterStop(s)) /\ app' = app
  BY DEF StopOne
<1>2. TypeOK /\ Sound BY DEF IInv
<1>3. /\ loop.at = "stop" /\ loop' \in [ at : Loops, i : 1 .. SrvsLen + 1 ] /\ loop'.at = "stop"
  BY <1>1, <1>2, RoundFacts DEF Loops
<1>4. /\ srvs' \in [ Servers -> Server ] /\ fault' \in BOOLEAN
      /\ srvs'[s].state = "STOPPED" /\ srvs'[s].open = {}
      /\ \A t \in Servers : t # s => srvs'[t] = srvs[t]
  BY <1>1, <1>2, StopServerFacts
<1>5. /\ mgr' \in Manager /\ mgr'.state = AfterStop(s).state /\ mgr'.reports = AfterStop(s).reports
      /\ mgr'.stopped_srvs = AfterStop(s).stopped_srvs + 1 /\ mgr'.srvs_len = mgr.srvs_len
  BY <1>1, <1>2, AfterStopFacts, Counted
<1>6. TypeOK' BY <1>1, <1>2, <1>3, <1>4, <1>5 DEF TypeOK
<1>7. Sound'
  <2>1. mgr \in Manager BY <1>2 DEF TypeOK
  <2>2. /\ mgr.stopped_srvs \in Nat /\ mgr.reports \in Nat /\ SrvsLen \in Nat
    BY <2>1, ManagerAssumption DEF Manager
  <2> QED BY <1>2, <1>3, <1>4, <1>5, <2>2, AfterStopFacts DEF Sound, Ends
<1>8. ~OneStop' BY <1>3, <1>1 DEF IInv, Ordered, OneStop
<1> QED BY <1>6, <1>7, <1>8 DEF IInv

LEMMA ManagerFacts ==
  ASSUME TypeOK
  PROVE  /\ mgr \in Manager /\ mgr.stopped_srvs \in Nat /\ mgr.reports \in Nat
         /\ mgr.active_srvs \in Int /\ SrvsLen \in Nat \ {0}
BY ManagerAssumption DEF TypeOK, Manager

\* A server that accepted or drained has stopped, and is counted.
LEMMA MatchesStopped ==
  ASSUME TypeOK, Matches, NEW s \in Servers,
         srvs[s].state \in {"ACCEPTING", "GRACEFULLY_STOPPING"}, srvs'[s].state = "STOPPED",
         \A t \in Servers : t # s => srvs'[t] = srvs[t],
         mgr'.active_srvs = mgr.active_srvs - 1, mgr'.stopped_srvs = mgr.stopped_srvs + 1
  PROVE  Matches'
<1>1. Cardinality(With(srvs', {"ACCEPTING", "GRACEFULLY_STOPPING"}))
        = Cardinality(With(srvs, {"ACCEPTING", "GRACEFULLY_STOPPING"})) - 1
  BY OneMoves
<1>2. Cardinality(With(srvs', {"STOPPED"})) = Cardinality(With(srvs, {"STOPPED"})) + 1
  BY OneMoves
<1> QED BY <1>1, <1>2 DEF Matches, With, InState

\* A server that was neither has been stopped and counted.
LEMMA MatchesIdle ==
  ASSUME TypeOK, Matches, NEW s \in Servers,
         srvs[s].state \notin {"ACCEPTING", "GRACEFULLY_STOPPING", "STOPPED"},
         srvs'[s].state = "STOPPED",
         \A t \in Servers : t # s => srvs'[t] = srvs[t],
         mgr'.active_srvs = mgr.active_srvs, mgr'.stopped_srvs = mgr.stopped_srvs + 1
  PROVE  Matches'
<1>0. /\ srvs[s].state \notin {"ACCEPTING", "GRACEFULLY_STOPPING"}
      /\ srvs'[s].state \notin {"ACCEPTING", "GRACEFULLY_STOPPING"}
      /\ srvs[s].state \notin {"STOPPED"} /\ srvs'[s].state \in {"STOPPED"}
  OBVIOUS
<1>1. Cardinality(With(srvs', {"ACCEPTING", "GRACEFULLY_STOPPING"}))
        = Cardinality(With(srvs, {"ACCEPTING", "GRACEFULLY_STOPPING"}))
  BY <1>0, OneMoves
<1>2. Cardinality(With(srvs', {"STOPPED"})) = Cardinality(With(srvs, {"STOPPED"})) + 1
  BY <1>0, OneMoves
<1> QED BY <1>1, <1>2 DEF Matches, With, InState

\* A server that changes nothing the counters are about
LEMMA MatchesSame ==
  ASSUME TypeOK, Matches, NEW s \in Servers,
         srvs[s].state \in {"ACCEPTING", "GRACEFULLY_STOPPING"}
           <=> srvs'[s].state \in {"ACCEPTING", "GRACEFULLY_STOPPING"},
         srvs[s].state = "STOPPED" <=> srvs'[s].state = "STOPPED",
         \A t \in Servers : t # s => srvs'[t] = srvs[t],
         mgr'.active_srvs = mgr.active_srvs, mgr'.stopped_srvs = mgr.stopped_srvs
  PROVE  Matches'
<1>1. Cardinality(With(srvs', {"ACCEPTING", "GRACEFULLY_STOPPING"}))
        = Cardinality(With(srvs, {"ACCEPTING", "GRACEFULLY_STOPPING"}))
  BY OneMoves
<1>2. Cardinality(With(srvs', {"STOPPED"})) = Cardinality(With(srvs, {"STOPPED"}))
  BY OneMoves
<1> QED BY <1>1, <1>2 DEF Matches, With, InState

LEMMA AllCountedNow ==
  ASSUME Matches
  PROVE  mgr.stopped_srvs = SrvsLen <=> \A s \in Servers : srvs[s].state = "STOPPED"
<1>1. Cardinality(With(srvs, {"STOPPED"})) = SrvsLen <=> \A s \in Servers : srvs[s].state = "STOPPED"
  BY AllCounted
<1> QED BY <1>1 DEF Matches, With, InState

LEMMA AllCountedNext ==
  ASSUME Matches'
  PROVE  mgr'.stopped_srvs = SrvsLen <=> \A s \in Servers : srvs'[s].state = "STOPPED"
<1>1. Cardinality(With(srvs', {"STOPPED"})) = SrvsLen <=> \A s \in Servers : srvs'[s].state = "STOPPED"
  BY AllCounted
<1> QED BY <1>1 DEF Matches, With, InState

LEMMA DestroyOneKeeps ==
  ASSUME IInv, NEW s \in Servers, DestroyOne(s) PROVE IInv'
<1>1. TypeOK /\ Sound /\ (OneStop => Ordered) /\ app' = app BY DEF IInv, DestroyOne
<1>2. /\ loop.at = "destroy" /\ loop' \in [ at : Loops, i : 1 .. SrvsLen + 1 ]
      /\ loop'.at = "destroy"
  BY <1>1, RoundFacts DEF DestroyOne, Loops
<1>3. CASE srvs[s].state = "STOPPED" /\ UNCHANGED << mgr, srvs, fault >>
  <2>1. TypeOK' BY <1>1, <1>2, <1>3 DEF TypeOK
  <2>2. Sound' BY <1>1, <1>2, <1>3 DEF Sound
  <2>3. (OneStop => Ordered)' BY <1>1, <1>2, <1>3 DEF Ordered, OneStop, Matches, InState
  <2> QED BY <2>1, <2>2, <2>3 DEF IInv
<1>4. CASE srvs[s].state # "STOPPED" /\ StopServer(s) /\ mgr' = AfterStop(s)
  <2>1. /\ srvs' \in [ Servers -> Server ] /\ fault' \in BOOLEAN
        /\ srvs'[s].state = "STOPPED" /\ srvs'[s].open = {}
        /\ \A t \in Servers : t # s => srvs'[t] = srvs[t]
    BY <1>1, <1>4, StopServerFacts
  <2>2. TypeOK' BY <1>1, <1>2, <1>4, <2>1, AfterStopFacts DEF TypeOK
  <2>3. Sound'
    BY <1>1, <1>2, <1>4, <2>1, AfterStopFacts, ManagerFacts DEF Sound, Ends
  <2>4. ASSUME OneStop PROVE Ordered'
    <3>1. Ordered BY <1>1, <2>4
    <3>2. CASE srvs[s].state = "GRACEFULLY_STOPPING"
      <4>1. mgr.state \in Ends /\ \A t \in Servers : srvs[t].state \in Ends
        BY <1>1, <1>2, <3>1, <3>2 DEF Sound, Ordered
      <4>2. /\ Matches'
            /\ mgr'.stopped_srvs = SrvsLen <=> \A t \in Servers : srvs'[t].state = "STOPPED"
        BY <1>1, <1>2, <1>4, <2>1, <3>1, <3>2, <4>1, AfterStopFacts, MatchesStopped, AllCountedNext
        DEF Ordered, Sound
      <4> QED
        BY <1>1, <1>2, <1>4, <2>1, <3>1, <3>2, <4>1, <4>2, AfterStopFacts, ManagerFacts
        DEF Ordered, Ends
    <3>3. CASE srvs[s].state # "GRACEFULLY_STOPPING"
      <4>1. mgr' = mgr /\ mgr.state \notin Ends
        BY <1>1, <1>2, <1>4, <3>1, <3>3, AfterStopFacts DEF Ordered, Ends
      <4> QED BY <1>1, <1>2, <2>1, <3>1, <4>1 DEF Ordered, Sound, Ends
    <3> QED BY <3>2, <3>3
  <2> QED BY <1>1, <2>2, <2>3, <2>4 DEF IInv, OneStop
<1> QED BY <1>3, <1>4 DEF DestroyOne

LEMMA GracefulStopOneKeeps ==
  ASSUME IInv, NEW s \in Servers, GracefulStopOne(s) PROVE IInv'
<1>1. TypeOK /\ Sound /\ (OneStop => Ordered) /\ app' = app BY DEF IInv, GracefulStopOne
<1>2. /\ loop.at = "graceful_stop" /\ loop.i = s
      /\ loop' \in [ at : Loops, i : 1 .. SrvsLen + 1 ]
      /\ loop'.at = "graceful_stop" /\ loop'.i = s + 1
  BY <1>1, RoundFacts DEF GracefulStopOne, Loops
<1>3. /\ s \in Nat /\ Servers \subseteq Nat /\ srvs[s] \in Server
      /\ mgr.srvs_len # 0 /\ mgr.state \in Ends
      /\ \A t \in Servers : t < s => srvs[t].state # "ACCEPTING"
  BY <1>1, <1>2 DEF Servers, TypeOK, Sound
<1>4. ASSUME OneStop
      PROVE  /\ Ordered /\ Matches /\ srvs[s].state \notin Ends /\ mgr.reports = 0
             /\ \A t \in Servers : srvs[t].state \in Ends <=> t < s
  <2>1. Ordered BY <1>1, <1>4
  <2>2. /\ Matches /\ srvs[s].state \notin Ends
        /\ \A t \in Servers : srvs[t].state \in Ends <=> t < s
    BY <1>2, <1>3, <2>1 DEF Ordered
  <2>3. mgr.reports = 0 BY <1>1, <2>1, <2>2 DEF Ordered, Sound, Ends
  <2> QED BY <2>1, <2>2, <2>3
<1>5. ASSUME NEW rest \in SUBSET srvs[s].open, rest # {}, srvs[s].state = "ACCEPTING",
             srvs' = [ srvs EXCEPT ![s] = Drained(srvs[s], rest) ], mgr' = mgr, fault' = fault
      PROVE  IInv'
  <2>1. rest \in SUBSET Conns BY <1>3 DEF Server
  <2>2. Drained(srvs[s], rest) \in Server /\ Drained(srvs[s], rest).state = "GRACEFULLY_STOPPING"
    BY <1>3, <1>5, <2>1, DrainedTyped
  <2>3. /\ srvs' \in [ Servers -> Server ] /\ srvs'[s].state = "GRACEFULLY_STOPPING"
        /\ \A t \in Servers : t # s => srvs'[t] = srvs[t]
    BY <1>1, <1>5, <2>2 DEF TypeOK
  <2>4. TypeOK' BY <1>1, <1>2, <1>5, <2>3 DEF TypeOK
  <2>5. Sound' BY <1>1, <1>2, <1>3, <1>5, <2>3 DEF Sound, Ends
  <2>6. ASSUME OneStop PROVE Ordered'
    <3>1. Matches' BY <1>1, <1>4, <1>5, <2>3, <2>6, MatchesSame
    <3>2. \A t \in Servers : srvs'[t].state \in Ends <=> t < s + 1
      BY <1>3, <1>4, <2>3, <2>6 DEF Ends
    <3> QED BY <1>2, <1>3, <1>4, <1>5, <2>6, <3>1, <3>2 DEF Ordered
  <2> QED BY <1>1, <2>4, <2>5, <2>6 DEF IInv, OneStop
<1>6. ASSUME srvs[s].state = "ACCEPTING",
             srvs' = [ srvs EXCEPT ![s] = Drained(srvs[s], {}) ], mgr' = GracefulStopCb(mgr),
             fault' = fault
      PROVE  IInv'
  <2>1. /\ Drained(srvs[s], {}) \in Server
        /\ Drained(srvs[s], {}).state = "STOPPED" /\ Drained(srvs[s], {}).open = {}
    BY <1>3, DrainedTyped
  <2>2. /\ srvs' \in [ Servers -> Server ] /\ srvs'[s].state = "STOPPED" /\ srvs'[s].open = {}
        /\ \A t \in Servers : t # s => srvs'[t] = srvs[t]
    BY <1>1, <1>6, <2>1 DEF TypeOK
  <2>3. TypeOK' BY <1>1, <1>2, <1>6, <2>2, ManagerFacts, Callback DEF TypeOK
  <2>4. Sound'
    BY <1>1, <1>2, <1>3, <1>6, <2>2, ManagerFacts, Callback DEF Sound, Ends
  <2>5. ASSUME OneStop PROVE Ordered'
    <3>1. /\ mgr'.active_srvs = mgr.active_srvs - 1 /\ mgr'.stopped_srvs = mgr.stopped_srvs + 1
          /\ mgr'.srvs_len = mgr.srvs_len
      BY <1>1, <1>6, ManagerFacts, Callback
    <3>2. Matches' BY <1>1, <1>4, <1>6, <2>2, <2>5, <3>1, MatchesStopped
    <3>3. mgr'.stopped_srvs = SrvsLen <=> \A t \in Servers : srvs'[t].state = "STOPPED"
      BY <3>2, AllCountedNext
    <3>4. \A t \in Servers : srvs'[t].state \in Ends <=> t < s + 1
      BY <1>3, <1>4, <2>2, <2>5 DEF Ends
    <3>5. /\ mgr'.state = "GRACEFULLY_STOPPING" => mgr'.reports = 0
          /\ mgr'.reports = 1 => \A t \in Servers : srvs'[t].state = "STOPPED"
          /\ mgr'.state \in Ends
      BY <1>1, <1>3, <1>4, <1>6, <2>5, <3>1, <3>3, ManagerFacts, Callback DEF Ends
    <3> QED BY <1>2, <3>2, <3>4, <3>5 DEF Ordered
  <2> QED BY <1>1, <2>3, <2>4, <2>5 DEF IInv, OneStop
<1>7. ASSUME srvs[s].state # "ACCEPTING", StopServer(s), mgr' = CountIdle(AfterStop(s))
      PROVE  IInv'
  <2>1. /\ srvs' \in [ Servers -> Server ] /\ fault' \in BOOLEAN
        /\ srvs'[s].state = "STOPPED" /\ srvs'[s].open = {}
        /\ \A t \in Servers : t # s => srvs'[t] = srvs[t]
    BY <1>1, <1>7, StopServerFacts
  <2>2. /\ mgr' \in Manager /\ mgr'.state = AfterStop(s).state /\ mgr'.reports = AfterStop(s).reports
        /\ mgr'.stopped_srvs = AfterStop(s).stopped_srvs + 1 /\ mgr'.srvs_len = mgr.srvs_len
        /\ mgr'.active_srvs = AfterStop(s).active_srvs
    BY <1>1, <1>7, AfterStopFacts, Counted
  <2>3. TypeOK' BY <1>1, <1>2, <2>1, <2>2 DEF TypeOK
  <2>4. Sound'
    <3>1. CASE srvs[s].state = "GRACEFULLY_STOPPING"
      BY <1>1, <1>2, <1>3, <1>7, <2>1, <2>2, <3>1, ManagerFacts, AfterStopFacts DEF Sound, Ends
    <3>2. CASE srvs[s].state # "GRACEFULLY_STOPPING"
      BY <1>1, <1>2, <1>3, <1>7, <2>1, <2>2, <3>2, ManagerFacts, AfterStopFacts DEF Sound, Ends
    <3> QED BY <3>1, <3>2
  <2>5. ASSUME OneStop PROVE Ordered'
    <3>1. srvs[s].state \notin Ends BY <1>4, <2>5
    <3>2. AfterStop(s) = mgr BY <1>1, <3>1, AfterStopFacts DEF Ends
    <3>3. srvs[s].state \notin {"ACCEPTING", "GRACEFULLY_STOPPING", "STOPPED"}
      BY <1>7, <3>1 DEF Ends
    <3>4. Matches' BY <1>1, <1>4, <2>1, <2>2, <2>5, <3>2, <3>3, MatchesIdle
    <3>5. \A t \in Servers : srvs'[t].state \in Ends <=> t < s + 1
      BY <1>3, <1>4, <2>1, <2>5 DEF Ends
    <3> QED BY <1>2, <1>3, <1>4, <2>2, <2>5, <3>2, <3>4, <3>5 DEF Ordered
  <2> QED BY <1>1, <2>3, <2>4, <2>5 DEF IInv, OneStop
<1> QED BY <1>5, <1>6, <1>7 DEF GracefulStopOne

LEMMA LoopEndsKeep ==
  ASSUME IInv, StopEnds \/ DestroyEnds \/ GracefulStopEnds PROVE IInv'
<1>1. TypeOK /\ Sound /\ (OneStop => Ordered) BY DEF IInv
<1>2. app' = app /\ srvs' = srvs /\ fault' = fault
  BY DEF StopEnds, DestroyEnds, GracefulStopEnds
<1>3. CASE StopEnds
  <2>1. /\ loop.at = "stop" /\ loop' \in [ at : Loops, i : 1 .. SrvsLen + 1 ]
        /\ loop'.at = "none" /\ mgr' = mgr
    BY <1>1, <1>3, EndFacts DEF StopEnds, Loops
  <2>2. TypeOK' BY <1>1, <1>2, <2>1 DEF TypeOK
  <2>3. Sound' BY <1>1, <1>2, <2>1 DEF Sound
  <2>4. ~OneStop' BY <1>1, <1>2, <2>1 DEF Ordered, OneStop
  <2> QED BY <2>2, <2>3, <2>4 DEF IInv
<1>4. CASE DestroyEnds
  <2>1. /\ loop.at = "destroy" /\ loop' \in [ at : Loops, i : 1 .. SrvsLen + 1 ]
        /\ loop'.at = "none"
    BY <1>1, <1>4, EndFacts DEF DestroyEnds, Loops
  <2>2. /\ mgr' \in Manager /\ mgr'.srvs_len = 0 /\ mgr'.state = mgr.state
        /\ mgr'.reports = mgr.reports /\ mgr'.stopped_srvs = mgr.stopped_srvs
    BY <1>1, <1>4, Emptied, ManagerFacts DEF DestroyEnds
  <2>3. TypeOK' BY <1>1, <1>2, <2>1, <2>2 DEF TypeOK
  <2>4. Sound' BY <1>1, <1>2, <2>1, <2>2 DEF Sound
  <2>5. (OneStop => Ordered)' BY <1>1, <1>2, <2>1, <2>2 DEF Ordered, OneStop
  <2> QED BY <2>3, <2>4, <2>5 DEF IInv
<1>5. CASE GracefulStopEnds
  <2>1. /\ loop.at = "graceful_stop" /\ loop.i = SrvsLen + 1
        /\ loop' \in [ at : Loops, i : 1 .. SrvsLen + 1 ] /\ loop'.at = "none"
    BY <1>1, <1>5, EndFacts DEF GracefulStopEnds, Loops
  <2>2. \A s \in Servers : s < loop.i BY <2>1, ManagerAssumption DEF Servers
  <2>3. mgr.state \in Ends /\ \A s \in Servers : srvs[s].state # "ACCEPTING"
    BY <1>1, <2>1, <2>2 DEF Sound
  <2>4. CASE mgr.state # "STOPPED" /\ mgr.stopped_srvs = SrvsLen
    <3>1. mgr.state = "GRACEFULLY_STOPPING" BY <2>3, <2>4 DEF Ends
    <3>2. mgr.reports = 0
      BY <1>1, <2>1, <2>4, <3>1, ManagerFacts DEF Sound
    <3>3. mgr' = Report(mgr) BY <1>5, <2>4 DEF GracefulStopEnds, AllStopped
    <3>4. /\ mgr' \in Manager /\ mgr'.srvs_len = mgr.srvs_len /\ mgr'.state = mgr.state
          /\ mgr'.reports = 1 /\ mgr'.stopped_srvs = mgr.stopped_srvs
          /\ mgr'.active_srvs = mgr.active_srvs
      BY <1>1, <3>2, <3>3 DEF Report, TypeOK, Manager
    <3>5. TypeOK' BY <1>1, <1>2, <2>1, <3>4 DEF TypeOK
    <3>6. Sound' BY <1>1, <1>2, <2>1, <2>3, <2>4, <3>4, ManagerFacts DEF Sound
    <3>7. ASSUME OneStop PROVE Ordered'
      <4>1. Ordered BY <1>1, <3>7
      <4>2. Matches BY <1>1, <2>1, <4>1 DEF Ordered, Sound
      <4>3. \A s \in Servers : srvs[s].state = "STOPPED" BY <2>4, <4>2, AllCountedNow
      <4>4. Matches' BY <1>2, <3>4, <4>2 DEF Matches, InState
      <4> QED BY <1>2, <2>1, <2>3, <3>4, <4>3, <4>4 DEF Ordered, Ends
    <3> QED BY <1>1, <1>2, <3>5, <3>6, <3>7 DEF IInv, OneStop
  <2>5. CASE ~(mgr.state # "STOPPED" /\ mgr.stopped_srvs = SrvsLen)
    <3>1. mgr' = mgr BY <1>5, <2>5 DEF GracefulStopEnds, AllStopped
    <3>2. TypeOK' BY <1>1, <1>2, <2>1, <3>1 DEF TypeOK
    <3>3. Sound' BY <1>1, <1>2, <2>1, <2>3, <3>1 DEF Sound
    <3>4. ASSUME OneStop PROVE Ordered'
      <4>1. Ordered BY <1>1, <3>4
      <4>2. Matches /\ \A s \in Servers : srvs[s].state \in Ends
        BY <1>1, <2>1, <2>2, <4>1 DEF Ordered, Sound
      <4>3. mgr.state = "GRACEFULLY_STOPPING" => \E s \in Servers : srvs[s].state # "STOPPED"
        BY <2>5, <4>2, AllCountedNow
      <4>4. Matches' BY <1>2, <3>1, <4>2 DEF Matches, InState
      <4> QED BY <1>2, <2>1, <2>3, <3>1, <4>1, <4>2, <4>3, <4>4 DEF Ordered, Ends
    <3> QED BY <1>1, <1>2, <3>2, <3>3, <3>4 DEF IInv, OneStop
  <2> QED BY <2>4, <2>5
<1> QED BY <1>3, <1>4, <1>5
-----------------------------------------------------------------------------
(* What the application and the peers do.                                  *)

LEMMA IdleFacts ==
  ASSUME TypeOK, Idle
  PROVE  loop.at = "none" /\ mgr.srvs_len # 0
BY DEF Idle

\* A step that leaves the servers in their states as far as they count.
LEMMA MatchesKept ==
  ASSUME Matches,
         \A s \in Servers :
           /\ srvs[s].state = "STOPPED" <=> srvs'[s].state = "STOPPED"
           /\ srvs[s].state \in {"ACCEPTING", "GRACEFULLY_STOPPING"}
                <=> srvs'[s].state \in {"ACCEPTING", "GRACEFULLY_STOPPING"},
         mgr'.active_srvs = mgr.active_srvs, mgr'.stopped_srvs = mgr.stopped_srvs
  PROVE  Matches'
<1>1. /\ InState({"STOPPED"})' = InState({"STOPPED"})
      /\ InState({"ACCEPTING", "GRACEFULLY_STOPPING"})' = InState({"ACCEPTING", "GRACEFULLY_STOPPING"})
  BY DEF InState
<1> QED BY <1>1 DEF Matches

\* Before the stop no server has been stopped, and the counters count.
LEMMA BeforeStop ==
  ASSUME IInv, Idle, OneStop, mgr.state \notin Ends
  PROVE  /\ Matches
         /\ \A s \in Servers : /\ srvs[s].state \notin Ends
                               /\ mgr.state # "ACCEPTING" => srvs[s].state # "ACCEPTING"
BY DEF IInv, Ordered, Idle

LEMMA BindKeeps ==
  ASSUME IInv, ManagerBind PROVE IInv'
<1>1. TypeOK /\ Sound /\ loop.at = "none" /\ mgr.srvs_len # 0
  BY IdleFacts DEF IInv, ManagerBind
<1>2. PICK bound \in SUBSET Servers, watched \in SUBSET Servers :
        srvs' = [ s \in Servers |->
                      IF s \in bound THEN Bound(srvs[s])
                      ELSE [ srvs[s] EXCEPT !.watched = @ \/ s \in watched ] ]
  BY DEF ManagerBind
<1>3. /\ loop' = loop /\ fault' = fault /\ app' = app
      /\ mgr.state = "IDLE" \/ "restart" \in app
      /\ \A s \in Servers : srvs[s].state \in {"IDLE", "STOPPED"}
  BY DEF ManagerBind
<1>4. \A s \in Servers :
        /\ srvs[s] \in Server
        /\ Bound(srvs[s]) \in Server /\ Bound(srvs[s]).state = "BOUND"
        /\ Bound(srvs[s]).open = srvs[s].open
        /\ [ srvs[s] EXCEPT !.watched = @ \/ s \in watched ] \in Server
        /\ [ srvs[s] EXCEPT !.watched = @ \/ s \in watched ].state = srvs[s].state
        /\ [ srvs[s] EXCEPT !.watched = @ \/ s \in watched ].open = srvs[s].open
  <2>1. SUFFICES ASSUME NEW s \in Servers
        PROVE  /\ srvs[s] \in Server
               /\ Bound(srvs[s]) \in Server /\ Bound(srvs[s]).state = "BOUND"
               /\ Bound(srvs[s]).open = srvs[s].open
               /\ [ srvs[s] EXCEPT !.watched = @ \/ s \in watched ] \in Server
               /\ [ srvs[s] EXCEPT !.watched = @ \/ s \in watched ].state = srvs[s].state
               /\ [ srvs[s] EXCEPT !.watched = @ \/ s \in watched ].open = srvs[s].open
    OBVIOUS
  <2>2. srvs[s] \in Server BY <1>1 DEF TypeOK
  <2>3. "BOUND" \in States /\ 0 \in Nat BY DEF States
  <2>4. /\ Bound(srvs[s]) \in Server /\ Bound(srvs[s]).state = "BOUND"
        /\ Bound(srvs[s]).open = srvs[s].open
    BY <2>2, <2>3 DEF Bound, Server
  <2>5. (srvs[s].watched \/ s \in watched) \in BOOLEAN OBVIOUS
  <2> QED BY <2>2, <2>4, <2>5 DEF Server
<1>5. \A s \in Servers :
        /\ srvs'[s] \in Server /\ srvs'[s].open = srvs[s].open
        /\ srvs'[s].state = "BOUND" \/ srvs'[s].state = srvs[s].state
  BY <1>2, <1>4
<1>6. srvs' \in [ Servers -> Server ] BY <1>2, <1>5
<1>7. /\ mgr' \in Manager /\ mgr'.state = "BOUND" /\ mgr'.reports = 0
      /\ mgr'.srvs_len = mgr.srvs_len /\ mgr'.active_srvs = mgr.active_srvs
      /\ mgr'.stopped_srvs = mgr.stopped_srvs
  <2>1. "BOUND" \in ManagerStates /\ 0 \in Nat BY DEF ManagerStates
  <2> QED BY <1>1, <2>1 DEF ManagerBind, Manager, TypeOK
<1>8. TypeOK' BY <1>1, <1>3, <1>6, <1>7 DEF TypeOK
<1>9. Sound' BY <1>1, <1>3, <1>5, <1>7 DEF Sound, Ends
<1>10. ASSUME OneStop PROVE Ordered'
  <2>1. mgr.state = "IDLE" BY <1>3, <1>10 DEF OneStop
  <2>2. Matches /\ \A s \in Servers : srvs[s].state \notin Ends
    BY <1>10, <2>1, BeforeStop DEF Ends, ManagerBind
  <2>3. \A s \in Servers : srvs'[s].state \notin {"STOPPED", "ACCEPTING", "GRACEFULLY_STOPPING"}
    BY <1>3, <1>5, <2>2 DEF Ends
  <2>4. Matches' BY <1>3, <1>7, <2>2, <2>3, MatchesKept DEF Ends
  <2> QED BY <1>1, <1>3, <1>7, <2>3, <2>4 DEF Ordered, Ends
<1> QED BY <1>3, <1>8, <1>9, <1>10 DEF IInv, OneStop

LEMMA ListenKeeps ==
  ASSUME IInv, ManagerListen PROVE IInv'
<1>1. TypeOK /\ Sound /\ loop.at = "none" /\ mgr.srvs_len # 0
  BY IdleFacts DEF IInv, ManagerListen
<1>2. PICK listening \in SUBSET { s \in Servers : srvs[s].state = "BOUND" } :
        srvs' = [ s \in Servers |->
                      IF s \in listening THEN SetState(srvs[s], "LISTENING") ELSE srvs[s] ]
  BY DEF ManagerListen
<1>3. loop' = loop /\ fault' = fault /\ app' = app /\ mgr.state = "BOUND" BY DEF ManagerListen
<1>4. \A s \in Servers :
        /\ srvs[s] \in Server
        /\ SetState(srvs[s], "LISTENING") \in Server
        /\ SetState(srvs[s], "LISTENING").state = "LISTENING"
        /\ SetState(srvs[s], "LISTENING").open = srvs[s].open
  BY <1>1 DEF TypeOK, SetState, Server, States
<1>5. \A s \in Servers :
        /\ srvs'[s] \in Server /\ srvs'[s].open = srvs[s].open
        /\ \/ srvs[s].state = "BOUND" /\ srvs'[s].state = "LISTENING"
           \/ srvs'[s].state = srvs[s].state
  BY <1>2, <1>4
<1>6. srvs' \in [ Servers -> Server ] BY <1>2, <1>5
<1>7. /\ mgr' \in Manager /\ mgr'.state = "LISTENING" /\ mgr'.reports = mgr.reports
      /\ mgr'.srvs_len = mgr.srvs_len /\ mgr'.active_srvs = mgr.active_srvs
      /\ mgr'.stopped_srvs = mgr.stopped_srvs
  BY <1>1 DEF ManagerListen, ManagerStates, Manager, TypeOK
<1>8. TypeOK' BY <1>1, <1>3, <1>6, <1>7 DEF TypeOK
<1>9. Sound' BY <1>1, <1>3, <1>5, <1>7 DEF Sound, Ends
<1>10. ASSUME OneStop PROVE Ordered'
  <2>1. Matches /\ \A s \in Servers : srvs[s].state \notin Ends \cup {"ACCEPTING"}
    BY <1>3, <1>10, BeforeStop DEF Ends, ManagerListen
  <2>2. \A s \in Servers : srvs'[s].state \notin {"STOPPED", "ACCEPTING", "GRACEFULLY_STOPPING"}
    BY <1>5, <2>1 DEF Ends
  <2>3. Matches' BY <1>7, <2>1, <2>2, MatchesKept DEF Ends
  <2>4. mgr'.reports = 0 BY <1>1, <1>3, <1>7 DEF Sound, Ends
  <2> QED BY <1>1, <1>3, <1>7, <2>2, <2>3, <2>4 DEF Ordered, Ends
<1> QED BY <1>3, <1>8, <1>9, <1>10 DEF IInv, OneStop

LEMMA AcceptKeeps ==
  ASSUME IInv, ManagerAccept PROVE IInv'
<1> DEFINE ready == { s \in Servers : srvs[s].state = "LISTENING" }
<1>1. TypeOK /\ Sound /\ loop.at = "none" /\ mgr.srvs_len # 0
  BY IdleFacts DEF IInv, ManagerAccept
<1>2. /\ srvs' = [ s \in Servers |->
                     IF s \in ready THEN SetState(srvs[s], "ACCEPTING") ELSE srvs[s] ]
      /\ mgr' = [ mgr EXCEPT !.state = "ACCEPTING", !.active_srvs = @ + Cardinality(ready) ]
      /\ loop' = loop /\ fault' = fault /\ app' = app /\ mgr.state = "LISTENING"
  BY DEF ManagerAccept
<1>3. \A s \in Servers :
        /\ srvs[s] \in Server
        /\ SetState(srvs[s], "ACCEPTING") \in Server
        /\ SetState(srvs[s], "ACCEPTING").state = "ACCEPTING"
        /\ SetState(srvs[s], "ACCEPTING").open = srvs[s].open
  BY <1>1 DEF TypeOK, SetState, Server, States
<1>4. \A s \in Servers :
        /\ srvs'[s] \in Server /\ srvs'[s].open = srvs[s].open
        /\ IF srvs[s].state = "LISTENING" THEN srvs'[s].state = "ACCEPTING"
           ELSE srvs'[s].state = srvs[s].state
  BY <1>2, <1>3
<1>5. srvs' \in [ Servers -> Server ] BY <1>2, <1>4
<1>6. Cardinality(ready) \in Nat
  <2>1. ready = With(srvs, {"LISTENING"}) BY DEF With
  <2> HIDE DEF ready
  <2> QED BY <2>1, WithFinite
<1>7. PICK a \in Int : a = mgr.active_srvs + Cardinality(ready)
  <2> HIDE DEF ready
  <2> QED BY <1>1, <1>6, ManagerFacts
<1>8. /\ mgr' \in Manager /\ mgr'.state = "ACCEPTING" /\ mgr'.reports = mgr.reports
      /\ mgr'.srvs_len = mgr.srvs_len /\ mgr'.active_srvs = a
      /\ mgr'.stopped_srvs = mgr.stopped_srvs
  <2>1. mgr' = [ mgr EXCEPT !.state = "ACCEPTING", !.active_srvs = a ] BY <1>2, <1>7
  <2>2. "ACCEPTING" \in ManagerStates BY DEF ManagerStates
  <2> QED BY <1>1, <2>1, <2>2 DEF Manager, TypeOK
<1>9. TypeOK' BY <1>1, <1>2, <1>5, <1>8 DEF TypeOK
<1>10. Sound' BY <1>1, <1>2, <1>4, <1>8 DEF Sound, Ends
<1>11. ASSUME OneStop PROVE Ordered'
  <2>1. Matches /\ \A s \in Servers : srvs[s].state \notin Ends \cup {"ACCEPTING"}
    BY <1>2, <1>11, BeforeStop DEF Ends, ManagerAccept
  <2>2. \A s \in Servers :
          /\ srvs'[s].state \notin Ends
          /\ srvs'[s].state = "ACCEPTING" <=> srvs[s].state = "LISTENING"
    BY <1>4, <2>1 DEF Ends
  <2>3. /\ InState({"ACCEPTING", "GRACEFULLY_STOPPING"}) = {} /\ InState({"STOPPED"}) = {}
        /\ InState({"ACCEPTING", "GRACEFULLY_STOPPING"})' = ready /\ InState({"STOPPED"})' = {}
    BY <2>1, <2>2 DEF InState, Ends
  <2>4. a = Cardinality(ready)
    <3> HIDE DEF ready
    <3>1. mgr.active_srvs = 0 BY <2>1, <2>3, FS_EmptySet DEF Matches
    <3> QED BY <1>6, <1>7, <3>1
  <2>5. Matches'
    <3> HIDE DEF ready
    <3> QED BY <1>8, <2>1, <2>3, <2>4 DEF Matches
  <2>6. mgr'.reports = 0 BY <1>1, <1>2, <1>8 DEF Sound, Ends
  <2> QED BY <1>1, <1>2, <1>8, <2>2, <2>5, <2>6 DEF Ordered, Ends
<1> QED BY <1>2, <1>9, <1>10, <1>11 DEF IInv, OneStop

LEMMA BeginKeeps ==
  ASSUME IInv, ManagerStop \/ ManagerDestroy \/ ManagerGracefulStop PROVE IInv'
<1>1. TypeOK /\ Sound /\ (OneStop => Ordered) BY DEF IInv
<1>2. /\ loop.at = "none" /\ mgr.srvs_len # 0
      /\ srvs' = srvs /\ fault' = fault /\ app' = app
  BY <1>1, IdleFacts DEF ManagerStop, ManagerDestroy, ManagerGracefulStop
<1>3. 1 \in 1 .. SrvsLen + 1 BY ManagerAssumption
<1>4. CASE ManagerStop
  <2>1. mgr' = mgr /\ loop' = [ at |-> "stop", i |-> 1 ] /\ "stop" \in app
    BY <1>4 DEF ManagerStop, Begin
  <2>2. TypeOK' BY <1>1, <1>2, <1>3, <2>1 DEF TypeOK, Loops
  <2>3. Sound' BY <1>1, <1>2, <2>1 DEF Sound
  <2>4. ~OneStop' BY <1>2, <2>1 DEF OneStop
  <2> QED BY <2>2, <2>3, <2>4 DEF IInv
<1>5. CASE ManagerDestroy
  <2>1. mgr' = mgr /\ loop' = [ at |-> "destroy", i |-> 1 ]
    BY <1>5 DEF ManagerDestroy, Begin
  <2>2. TypeOK' BY <1>1, <1>2, <1>3, <2>1 DEF TypeOK, Loops
  <2>3. Sound' BY <1>1, <1>2, <2>1 DEF Sound
  <2>4. (OneStop => Ordered)' BY <1>1, <1>2, <2>1 DEF Ordered, OneStop, Matches, InState
  <2> QED BY <2>2, <2>3, <2>4 DEF IInv
<1>6. CASE ManagerGracefulStop
  <2>1. /\ mgr' = [ mgr EXCEPT !.state = "GRACEFULLY_STOPPING" ]
        /\ loop' = [ at |-> "graceful_stop", i |-> 1 ]
        /\ mgr.state \in {"IDLE", "BOUND", "LISTENING", "ACCEPTING"} \/ "again" \in app
    BY <1>6 DEF ManagerGracefulStop, Begin
  <2>2. /\ mgr' \in Manager /\ mgr'.state = "GRACEFULLY_STOPPING" /\ mgr'.reports = mgr.reports
        /\ mgr'.srvs_len = mgr.srvs_len /\ mgr'.active_srvs = mgr.active_srvs
        /\ mgr'.stopped_srvs = mgr.stopped_srvs
    BY <1>1, <2>1 DEF Manager, ManagerStates, TypeOK
  <2>3. \A s \in Servers : ~(s < 1) BY DEF Servers
  <2>4. TypeOK' BY <1>1, <1>2, <1>3, <2>1, <2>2 DEF TypeOK, Loops
  <2>5. Sound' BY <1>1, <1>2, <2>1, <2>2, <2>3 DEF Sound, Ends
  <2>6. ASSUME OneStop PROVE Ordered'
    <3>1. mgr.state \notin Ends BY <2>1, <2>6 DEF OneStop, Ends
    <3>2. Matches /\ \A s \in Servers : srvs[s].state \notin Ends
      BY <1>6, <2>6, <3>1, BeforeStop DEF ManagerGracefulStop
    <3>3. Matches' BY <1>2, <2>2, <3>2 DEF Matches, InState
    <3>4. mgr.reports = 0 BY <1>1, <3>1 DEF Sound
    <3> QED BY <1>2, <2>1, <2>2, <2>3, <3>2, <3>3, <3>4 DEF Ordered, Ends
  <2> QED BY <1>1, <1>2, <2>4, <2>5, <2>6 DEF IInv, OneStop
<1> QED BY <1>4, <1>5, <1>6

LEMMA SetOpen ==
  ASSUME NEW v \in Server, NEW o \in SUBSET Conns
  PROVE  /\ [ v EXCEPT !.open = o ] \in Server
         /\ [ v EXCEPT !.open = o ].state = v.state /\ [ v EXCEPT !.open = o ].open = o
BY DEF Server

\* Nothing but the connections of one server changes.
LEMMA OpenKeeps ==
  ASSUME IInv, Idle, NEW s \in Servers, NEW o \in SUBSET Conns,
         srvs' = [ srvs EXCEPT ![s].open = o ],
         o # {} => srvs[s].state \in {"ACCEPTING", "GRACEFULLY_STOPPING"},
         UNCHANGED << mgr, loop, fault, app >>
  PROVE  IInv'
<1>1. TypeOK /\ Sound /\ (OneStop => Ordered) BY DEF IInv
<1>2. /\ srvs' = [ srvs EXCEPT ![s] = [ srvs[s] EXCEPT !.open = o ] ] /\ srvs[s] \in Server
  BY <1>1 DEF TypeOK
<1>3. /\ srvs' \in [ Servers -> Server ]
      /\ srvs'[s].state = srvs[s].state /\ srvs'[s].open = o
      /\ \A t \in Servers : t # s => srvs'[t] = srvs[t]
  BY <1>1, <1>2, SetOpen DEF TypeOK
<1>4. \A t \in Servers : srvs'[t].state = srvs[t].state BY <1>3
<1>5. TypeOK' BY <1>1, <1>3 DEF TypeOK
<1>6. Sound' BY <1>1, <1>3, <1>4 DEF Sound
<1>7. Matches' <=> Matches
  <2>1. /\ InState({"ACCEPTING", "GRACEFULLY_STOPPING"})' = InState({"ACCEPTING", "GRACEFULLY_STOPPING"})
        /\ InState({"STOPPED"})' = InState({"STOPPED"})
    BY <1>4 DEF InState
  <2> QED BY <2>1 DEF Matches
<1>8. (OneStop => Ordered)' BY <1>1, <1>4, <1>7 DEF Ordered, OneStop
<1> QED BY <1>5, <1>6, <1>8 DEF IInv

LEMMA ConnectKeeps ==
  ASSUME IInv, NEW s \in Servers, NEW c \in Conns, Connect(s, c) PROVE IInv'
<1>1. srvs[s] \in Server /\ srvs \in [ Servers -> Server ] BY DEF IInv, TypeOK
<1>2. PICK o \in SUBSET Conns : o = srvs[s].open \cup {c} BY <1>1 DEF Server
<1>3. srvs' = [ srvs EXCEPT ![s].open = o ] BY <1>1, <1>2 DEF Connect
<1> QED BY <1>3, OpenKeeps DEF Connect

LEMMA DisconnectKeeps ==
  ASSUME IInv, NEW s \in Servers, NEW c \in Conns, Disconnect(s, c) PROVE IInv'
<1>1. /\ TypeOK /\ Sound /\ (OneStop => Ordered)
      /\ srvs[s] \in Server /\ srvs \in [ Servers -> Server ]
      /\ loop.at = "none" /\ mgr.srvs_len # 0 /\ loop' = loop /\ fault' = fault /\ app' = app
  BY IdleFacts DEF IInv, TypeOK, Disconnect
<1>2. CASE ~Draining(srvs[s]) \/ srvs[s].open # {c}
  <2>1. PICK o \in SUBSET Conns : o = srvs[s].open \ {c} BY <1>1 DEF Server
  <2>2. o # {} => srvs[s].state \in {"ACCEPTING", "GRACEFULLY_STOPPING"}
    BY <1>1, <2>1 DEF Sound
  <2>3. srvs' = [ srvs EXCEPT ![s].open = o ] /\ mgr' = mgr
    BY <1>1, <1>2, <2>1 DEF Disconnect
  <2> QED BY <1>1, <2>2, <2>3, OpenKeeps DEF Disconnect
<1>3. CASE Draining(srvs[s]) /\ srvs[s].open = {c}
  <2>1. /\ srvs' = [ srvs EXCEPT ![s] = Ended(srvs[s]) ] /\ mgr' = GracefulStopCb(mgr)
    BY <1>3 DEF Disconnect
  <2>2. /\ srvs' \in [ Servers -> Server ] /\ srvs'[s].state = "STOPPED" /\ srvs'[s].open = {}
        /\ \A t \in Servers : t # s => srvs'[t] = srvs[t]
    BY <1>1, <2>1, StopsTyped
  <2>3. srvs[s].state = "GRACEFULLY_STOPPING" /\ mgr.state \in Ends
    BY <1>1, <1>3 DEF Draining, Sound
  <2>4. TypeOK' BY <1>1, <2>1, <2>2, ManagerFacts, Callback DEF TypeOK
  <2>5. Sound' BY <1>1, <2>1, <2>2, <2>3, ManagerFacts, Callback DEF Sound, Ends
  <2>6. ASSUME OneStop PROVE Ordered'
    <3>1. Ordered BY <1>1, <2>6
    <3>2. /\ Matches /\ mgr.reports = 0 /\ \A t \in Servers : srvs[t].state \in Ends
      BY <1>1, <2>3, <3>1 DEF Ordered, Sound
    <3>3. /\ mgr'.active_srvs = mgr.active_srvs - 1 /\ mgr'.stopped_srvs = mgr.stopped_srvs + 1
          /\ mgr'.srvs_len = mgr.srvs_len
      BY <1>1, <2>1, ManagerFacts, Callback
    <3>4. Matches' BY <1>1, <2>2, <2>3, <3>2, <3>3, MatchesStopped
    <3>5. mgr'.stopped_srvs = SrvsLen <=> \A t \in Servers : srvs'[t].state = "STOPPED"
      BY <3>4, AllCountedNext
    <3>6. \A t \in Servers : srvs'[t].state \in Ends BY <2>2, <3>2 DEF Ends
    <3>7. /\ mgr'.reports = 1 => \A t \in Servers : srvs'[t].state = "STOPPED"
          /\ mgr'.state \in Ends
          /\ mgr'.state = "GRACEFULLY_STOPPING" => \E t \in Servers : srvs'[t].state # "STOPPED"
      BY <1>1, <2>1, <2>3, <3>2, <3>3, <3>5, ManagerFacts, Callback DEF Ends
    <3> QED BY <1>1, <3>4, <3>6, <3>7 DEF Ordered, Ends
  <2> QED BY <1>1, <2>4, <2>5, <2>6 DEF IInv, OneStop
<1> QED BY <1>2, <1>3

LEMMA InitHolds == Init => IInv
<1> SUFFICES ASSUME Init PROVE IInv OBVIOUS
<1>1. NewServer \in Server BY DEF NewServer, Server, States
<1>2. mgr \in Manager BY ManagerAssumption DEF Init, Manager, ManagerStates
<1>3. TypeOK
  <2>1. 1 \in 1 .. SrvsLen + 1 BY ManagerAssumption
  <2>2. srvs \in [ Servers -> Server ] BY <1>1 DEF Init
  <2>3. loop \in [ at : Loops, i : 1 .. SrvsLen + 1 ] BY <2>1 DEF Init, Loops
  <2>4. fault \in BOOLEAN /\ app \in Apps BY DEF Init
  <2> QED BY <1>2, <2>2, <2>3, <2>4 DEF TypeOK
<1>4. \A s \in Servers : srvs[s].state = "IDLE" /\ srvs[s].open = {} BY DEF Init, NewServer
<1>5. Sound BY <1>4 DEF Init, Sound, Ends
<1>6. InState({"ACCEPTING", "GRACEFULLY_STOPPING"}) = {} /\ InState({"STOPPED"}) = {}
  BY <1>4 DEF InState
<1>7. Matches BY <1>6, FS_EmptySet DEF Matches, Init
<1>8. Ordered BY <1>4, <1>7 DEF Init, Ordered, Ends
<1> QED BY <1>3, <1>5, <1>8 DEF IInv

LEMMA NextKeeps == IInv /\ [Next]_vars => IInv'
<1> SUFFICES ASSUME IInv, [Next]_vars PROVE IInv' OBVIOUS
<1>1. CASE LoopStep
  BY <1>1, StopOneKeeps, DestroyOneKeeps, GracefulStopOneKeeps, LoopEndsKeep DEF LoopStep
<1>2. CASE ManagerBind \/ ManagerListen \/ ManagerAccept
  BY <1>2, BindKeeps, ListenKeeps, AcceptKeeps
<1>3. CASE ManagerStop \/ ManagerGracefulStop \/ ManagerDestroy BY <1>3, BeginKeeps
<1>4. CASE \E s \in Servers, c \in Conns : Connect(s, c) \/ Disconnect(s, c)
  BY <1>4, ConnectKeeps, DisconnectKeeps
<1>5. CASE UNCHANGED vars
  BY <1>5 DEF vars, IInv, TypeOK, Sound, Ordered, Matches, InState, OneStop
<1> QED BY <1>1, <1>2, <1>3, <1>4, <1>5 DEF Next

\* Whatever is asked of the manager (evsrv_manager.c:51-115).
THEOREM Invariance == Spec => []IInv
BY InitHolds, NextKeeps, PTL DEF Spec
-----------------------------------------------------------------------------
(* What follows.                                                           *)

\* Every value has its type, the active servers' count being any integer:
\* nothing in the code keeps it from becoming negative.
THEOREM TypeCorrect == Spec => []TypeOK
<1>1. IInv => TypeOK BY DEF IInv
<1> QED BY <1>1, Invariance, PTL

\* The counters are the numbers of the servers they stand for, between any two
\* calls of one graceful stop too (evsrv_manager.c:68, 98-99, 110-111).
THEOREM CountersCorrect == Spec => []CountersMatch
<1>1. IInv => CountersMatch BY DEF IInv, Ordered, Matches, CountersMatch
<1> QED BY <1>1, Invariance, PTL

\* The end of a graceful stop is reported only when every server has stopped
\* and no connection is left (evsrv_manager.c:102-104, 112-115).
THEOREM ReportAtEnd == Spec => []ReportedAtEnd
<1>1. IInv => ReportedAtEnd
  <2> SUFFICES ASSUME IInv, OneStop, mgr.reports > 0, NEW s \in Servers
               PROVE  srvs[s].state = "STOPPED" /\ srvs[s].open = {}
    BY DEF ReportedAtEnd
  <2>1. mgr.reports = 1 BY DEF IInv, Sound
  <2>2. srvs[s].state = "STOPPED" BY <2>1 DEF IInv, Ordered
  <2> QED BY <2>2 DEF IInv, Sound
<1> QED BY <1>1, Invariance, PTL

\* Whatever is asked of the manager, restarts and stops in any order, the end
\* is reported at most once until the group is bound again.
THEOREM ReportOnce == Spec => []AtMostOneReport
<1>1. IInv => AtMostOneReport BY DEF IInv, Sound, AtMostOneReport
<1> QED BY <1>1, Invariance, PTL

\* While a graceful stop has not been reported some server still drains, whose
\* end will call the manager back (evsrv_manager.c:93-104).
THEOREM ReportKept == Spec => []ReportNotLost
<1>1. IInv => ReportNotLost BY DEF IInv, Ordered, ReportNotLost, InState
<1> QED BY <1>1, Invariance, PTL
-----------------------------------------------------------------------------
(* The servers of the group.                                              *)

\* A server is told of the end of a drain only when it has stopped.
Untold == \A s \in Servers : srvs[s].state # "STOPPED" => srvs[s].told = 0

\* What server s has promised allows the step.
KeepsPromise(s) == [ Life(s)!Next ]_(Life(s)!vars)

LEMMA PhaseOf ==
  ASSUME NEW v
  PROVE  /\ v.state = "ACCEPTING" => Phase(v) = "serving"
         /\ v.state = "GRACEFULLY_STOPPING" => Phase(v) = "draining"
         /\ v.state \notin {"ACCEPTING", "GRACEFULLY_STOPPING"} => Phase(v) = "closed"
BY DEF Phase


LEMMA LifeStutters ==
  ASSUME NEW s \in Servers, srvs'[s].told = srvs[s].told, srvs'[s].open = srvs[s].open,
         \/ srvs'[s].state = srvs[s].state
         \/ {srvs[s].state, srvs'[s].state} \cap {"ACCEPTING", "GRACEFULLY_STOPPING"} = {}
  PROVE  KeepsPromise(s)
<1>1. Phase(srvs'[s]) = Phase(srvs[s])
  <2>1. CASE srvs'[s].state = srvs[s].state BY <2>1 DEF Phase
  <2>2. CASE {srvs[s].state, srvs'[s].state} \cap {"ACCEPTING", "GRACEFULLY_STOPPING"} = {}
    <3>1. /\ srvs[s].state \notin {"ACCEPTING", "GRACEFULLY_STOPPING"}
          /\ srvs'[s].state \notin {"ACCEPTING", "GRACEFULLY_STOPPING"}
      BY <2>2
    <3> QED BY <3>1, PhaseOf
  <2> QED BY <2>1, <2>2
<1> QED BY <1>1 DEF KeepsPromise, Life!vars

LEMMA LifeStops ==
  ASSUME NEW s \in Servers, srvs[s] \in Server, srvs'[s] = Stopped(srvs[s])
  PROVE  KeepsPromise(s) /\ srvs'[s].state = "STOPPED"
<1>1. /\ Phase(srvs'[s]) = "closed" /\ srvs'[s].open = {} /\ srvs'[s].state = "STOPPED"
      /\ srvs'[s].told = IF srvs[s].state = "GRACEFULLY_STOPPING" THEN srvs[s].told + 1 ELSE srvs[s].told
  BY PhaseOf DEF Stopped, StopsUntold, Ended, Draining, Server
<1>2. Phase(srvs[s]) = "draining" <=> srvs[s].state = "GRACEFULLY_STOPPING" BY PhaseOf
<1>3. Life(s)!Stop BY <1>1, <1>2 DEF Life!Stop
<1> QED BY <1>1, <1>3 DEF Life!Next, KeepsPromise

\* An accepting server is asked to drain.
LEMMA LifeDrains ==
  ASSUME NEW s \in Servers, srvs[s] \in Server, NEW rest \in SUBSET srvs[s].open,
         srvs[s].state = "ACCEPTING", srvs[s].told = 0, srvs'[s] = Drained(srvs[s], rest)
  PROVE  KeepsPromise(s) /\ (srvs'[s].state # "STOPPED" => srvs'[s].told = 0)
<1>1. Phase(srvs[s]) = "serving" BY PhaseOf
<1>2. CASE rest = {}
  <2>1. /\ Phase(srvs'[s]) = "closed" /\ srvs'[s].open = {} /\ srvs'[s].state = "STOPPED"
        /\ srvs'[s].told = srvs[s].told + 1
    BY <1>2, PhaseOf DEF Drained, Ended, Server
  <2>2. Life(s)!Drain BY <1>1, <2>1 DEF Life!Drain
  <2> QED BY <2>1, <2>2 DEF Life!Next, KeepsPromise
<1>3. CASE rest # {}
  <2>1. /\ Phase(srvs'[s]) = "draining" /\ srvs'[s].open = rest
        /\ srvs'[s].told = srvs[s].told
    BY <1>3, PhaseOf DEF Drained, Server
  <2>2. Life(s)!Drain BY <1>1, <1>3, <2>1 DEF Life!Drain
  <2> QED BY <2>1, <2>2 DEF Life!Next, KeepsPromise
<1> QED BY <1>2, <1>3

\* Every step keeps what each server has promised.
Kept == Untold' /\ \A s \in Servers : KeepsPromise(s)

\* Only one server takes a step.
LEMMA OneKept ==
  ASSUME TypeOK, Untold, NEW s \in Servers, NEW v, srvs' = [ srvs EXCEPT ![s] = v ],
         KeepsPromise(s), srvs'[s].state # "STOPPED" => srvs'[s].told = 0
  PROVE  Kept
<1>1. \A t \in Servers : t # s => srvs'[t] = srvs[t] BY DEF TypeOK
<1>2. \A t \in Servers : t # s => KeepsPromise(t) BY <1>1, LifeStutters
<1> QED BY <1>1, <1>2 DEF Kept, Untold

LEMMA NoneMoves == ASSUME Untold, srvs' = srvs PROVE Kept
BY LifeStutters DEF Kept, Untold

LEMMA StopServerKept ==
  ASSUME TypeOK, Untold, NEW s \in Servers, StopServer(s) PROVE Kept
<1>1. srvs[s] \in Server /\ srvs'[s] = Stopped(srvs[s]) BY DEF TypeOK, StopServer
<1> QED BY <1>1, LifeStops, OneKept DEF StopServer

LEMMA LoopStepKept ==
  ASSUME TypeOK, Untold, LoopStep PROVE Kept
<1>1. ASSUME NEW s \in Servers, StopOne(s) PROVE Kept BY <1>1, StopServerKept DEF StopOne
<1>2. ASSUME NEW s \in Servers, DestroyOne(s) PROVE Kept
  BY <1>2, StopServerKept, NoneMoves DEF DestroyOne
<1>3. ASSUME NEW s \in Servers, GracefulStopOne(s) PROVE Kept
  <2>1. CASE srvs[s].state # "ACCEPTING" BY <1>3, <2>1, StopServerKept DEF GracefulStopOne
  <2>2. CASE srvs[s].state = "ACCEPTING"
    <3>1. PICK rest \in SUBSET srvs[s].open : srvs' = [ srvs EXCEPT ![s] = Drained(srvs[s], rest) ]
      BY <1>3, <2>2 DEF GracefulStopOne
    <3>2. srvs[s] \in Server /\ srvs'[s] = Drained(srvs[s], rest) BY <3>1 DEF TypeOK
    <3>3. srvs[s].told = 0 BY <2>2 DEF Untold
    <3> QED BY <2>2, <3>1, <3>2, <3>3, LifeDrains, OneKept
  <2> QED BY <2>1, <2>2
<1>4. CASE StopEnds \/ DestroyEnds \/ GracefulStopEnds
  BY <1>4, NoneMoves DEF StopEnds, DestroyEnds, GracefulStopEnds
<1> QED BY <1>1, <1>2, <1>3, <1>4 DEF LoopStep

LEMMA BindKept == ASSUME TypeOK, Untold, ManagerBind PROVE Kept
<1>1. PICK bound \in SUBSET Servers : \E watched \in SUBSET (Servers \ bound) :
        srvs' = [ s \in Servers |->
                    IF s \in bound THEN Bound(srvs[s])
                    ELSE [ srvs[s] EXCEPT !.watched = @ \/ s \in watched ] ]
  BY DEF ManagerBind
<1>2. PICK watched \in SUBSET (Servers \ bound) :
        srvs' = [ s \in Servers |->
                    IF s \in bound THEN Bound(srvs[s])
                    ELSE [ srvs[s] EXCEPT !.watched = @ \/ s \in watched ] ]
  BY <1>1
<1>3. ASSUME NEW s \in Servers
      PROVE  KeepsPromise(s) /\ (srvs'[s].state # "STOPPED" => srvs'[s].told = 0)
  <2>1. srvs[s] \in Server /\ srvs[s].state \in {"IDLE", "STOPPED"} BY DEF TypeOK, ManagerBind
  <2>2. CASE s \in bound
    <3>1. srvs'[s] = Bound(srvs[s]) BY <1>2, <2>2
    <3>2. srvs'[s].state = "BOUND" /\ srvs'[s].open = srvs[s].open /\ srvs'[s].told = 0
      BY <2>1, <3>1 DEF Bound, Server
    <3>3. Phase(srvs[s]) = "closed" /\ Phase(srvs'[s]) = "closed" BY <2>1, <3>2, PhaseOf
    <3>4. Life(s)!Reset BY <3>2, <3>3 DEF Life!Reset
    <3> QED BY <3>2, <3>4 DEF Life!Next, KeepsPromise
  <2>3. CASE s \notin bound
    <3>1. srvs'[s] = [ srvs[s] EXCEPT !.watched = @ \/ s \in watched ] BY <1>2, <2>3
    <3>2. /\ srvs'[s].state = srvs[s].state /\ srvs'[s].open = srvs[s].open
          /\ srvs'[s].told = srvs[s].told
      BY <2>1, <3>1 DEF Server
    <3> QED BY <3>2, LifeStutters DEF Untold
  <2> QED BY <2>2, <2>3
<1> QED BY <1>3 DEF Kept, Untold

LEMMA ListenKept == ASSUME TypeOK, Untold, ManagerListen PROVE Kept
<1>1. PICK listening \in SUBSET { s \in Servers : srvs[s].state = "BOUND" } :
        srvs' = [ s \in Servers |->
                    IF s \in listening THEN SetState(srvs[s], "LISTENING") ELSE srvs[s] ]
  BY DEF ManagerListen
<1>2. ASSUME NEW s \in Servers
      PROVE  /\ srvs'[s].told = srvs[s].told /\ srvs'[s].open = srvs[s].open
             /\ \/ srvs[s].state = "BOUND" /\ srvs'[s].state = "LISTENING"
                \/ srvs'[s].state = srvs[s].state
  <2>1. srvs[s] \in Server BY DEF TypeOK
  <2>2. srvs'[s] = IF s \in listening THEN SetState(srvs[s], "LISTENING") ELSE srvs[s] BY <1>1
  <2> QED BY <1>1, <2>1, <2>2 DEF SetState, Server
<1>3. Untold' BY <1>2 DEF Untold
<1>4. \A s \in Servers : KeepsPromise(s) BY <1>2, LifeStutters
<1> QED BY <1>3, <1>4 DEF Kept

LEMMA AcceptKept == ASSUME TypeOK, Untold, ManagerAccept PROVE Kept
<1>1. ASSUME NEW s \in Servers
      PROVE  /\ srvs'[s].told = srvs[s].told /\ srvs'[s].open = srvs[s].open
             /\ \/ srvs[s].state = "LISTENING" /\ srvs'[s].state = "ACCEPTING"
                \/ srvs'[s].state = srvs[s].state
  <2>1. srvs[s] \in Server BY DEF TypeOK
  <2>2. srvs'[s] = IF srvs[s].state = "LISTENING" THEN SetState(srvs[s], "ACCEPTING") ELSE srvs[s]
    BY DEF ManagerAccept
  <2> QED BY <2>1, <2>2 DEF SetState, Server
<1>2. ASSUME NEW s \in Servers PROVE KeepsPromise(s)
  <2>1. CASE srvs'[s].state = srvs[s].state BY <1>1, <2>1, LifeStutters
  <2>2. CASE srvs[s].state = "LISTENING" /\ srvs'[s].state = "ACCEPTING"
    <3>1. Phase(srvs[s]) = "closed" /\ Phase(srvs'[s]) = "serving" BY <2>2, PhaseOf
    <3>2. Life(s)!Serve BY <1>1, <2>2, <3>1 DEF Life!Serve, Untold
    <3> QED BY <3>2 DEF Life!Next, KeepsPromise
  <2> QED BY <1>1, <2>1, <2>2
<1>3. Untold' BY <1>1 DEF Untold
<1> QED BY <1>2, <1>3 DEF Kept

\* Nothing but the connections of one server changes.
LEMMA OpenSet ==
  ASSUME TypeOK, Untold, NEW s \in Servers, NEW o \in SUBSET Conns,
         srvs' = [ srvs EXCEPT ![s].open = o ]
  PROVE  /\ srvs' = [ srvs EXCEPT ![s] = [ srvs[s] EXCEPT !.open = o ] ]
         /\ srvs'[s].open = o /\ srvs'[s].told = srvs[s].told
         /\ Phase(srvs'[s]) = Phase(srvs[s])
         /\ srvs'[s].state # "STOPPED" => srvs'[s].told = 0
<1>1. srvs[s] \in Server BY DEF TypeOK
<1>2. /\ srvs' = [ srvs EXCEPT ![s] = [ srvs[s] EXCEPT !.open = o ] ]
      /\ srvs'[s] = [ srvs[s] EXCEPT !.open = o ]
  BY <1>1 DEF TypeOK
<1>3. srvs'[s].state = srvs[s].state /\ srvs'[s].open = o /\ srvs'[s].told = srvs[s].told
  BY <1>1, <1>2 DEF Server
<1> QED BY <1>2, <1>3 DEF Phase, Untold

LEMMA ConnectKept ==
  ASSUME TypeOK, Untold, NEW s \in Servers, NEW c \in Conns, Connect(s, c) PROVE Kept
<1>1. PICK o \in SUBSET Conns : o = srvs[s].open \cup {c} BY DEF TypeOK, Server
<1>2. srvs' = [ srvs EXCEPT ![s].open = o ] /\ c \notin srvs[s].open /\ Phase(srvs[s]) = "serving"
  BY <1>1, PhaseOf DEF Connect, TypeOK
<1>3. Life(s)!Connect(c) BY <1>1, <1>2, OpenSet DEF Life!Connect, Life!vars
<1>4. KeepsPromise(s) BY <1>3 DEF Life!Next, KeepsPromise
<1> QED BY <1>2, <1>4, OpenSet, OneKept

LEMMA DisconnectKept ==
  ASSUME TypeOK, Untold, NEW s \in Servers, NEW c \in Conns, Disconnect(s, c) PROVE Kept
<1>1. srvs[s] \in Server /\ c \in srvs[s].open BY DEF TypeOK, Disconnect
<1>2. Phase(srvs[s]) = "draining" <=> Draining(srvs[s]) BY PhaseOf DEF Draining
<1>3. CASE Draining(srvs[s]) /\ srvs[s].open = {c}
  <2>1. srvs' = [ srvs EXCEPT ![s] = Ended(srvs[s]) ] BY <1>3 DEF Disconnect
  <2>2. srvs'[s] = Ended(srvs[s]) BY <2>1 DEF TypeOK
  <2>3. /\ srvs'[s].state = "STOPPED" /\ srvs'[s].open = {} /\ srvs'[s].told = srvs[s].told + 1
    BY <1>1, <2>2 DEF Ended, Server
  <2>4. Life(s)!Finish BY <1>2, <1>3, <2>3, PhaseOf DEF Life!Finish
  <2>5. KeepsPromise(s) BY <2>4 DEF Life!Next, KeepsPromise
  <2> QED BY <2>1, <2>3, <2>5, OneKept
<1>4. CASE ~Draining(srvs[s]) \/ srvs[s].open # {c}
  <2>1. PICK o \in SUBSET Conns : o = srvs[s].open \ {c} BY <1>1 DEF Server
  <2>2. srvs' = [ srvs EXCEPT ![s].open = o ] BY <1>4, <2>1 DEF Disconnect, TypeOK
  <2>3. Life(s)!Disconnect(c) BY <1>1, <1>2, <1>4, <2>1, <2>2, OpenSet DEF Life!Disconnect
  <2>4. KeepsPromise(s) BY <2>3 DEF Life!Next, KeepsPromise
  <2> QED BY <2>2, <2>4, OpenSet, OneKept
<1> QED BY <1>3, <1>4

LEMMA NextKept == ASSUME TypeOK, Untold, [Next]_vars PROVE Kept
<1>1. CASE LoopStep BY <1>1, LoopStepKept
<1>2. CASE ManagerBind \/ ManagerListen \/ ManagerAccept
  BY <1>2, BindKept, ListenKept, AcceptKept
<1>3. CASE ManagerStop \/ ManagerGracefulStop \/ ManagerDestroy
  BY <1>3, NoneMoves DEF ManagerStop, ManagerGracefulStop, ManagerDestroy
<1>4. CASE \E s \in Servers, c \in Conns : Connect(s, c) \/ Disconnect(s, c)
  BY <1>4, ConnectKept, DisconnectKept
<1>5. CASE UNCHANGED vars BY <1>5, NoneMoves DEF vars
<1> QED BY <1>1, <1>2, <1>3, <1>4, <1>5 DEF Next

\* Every server of the group lives by ServerLife, step by step and whatever is
\* asked of the manager: it drains or stops it only as its owner would, and
\* each drain is reported once, with no connection left (evsrv.c:225-262).
THEOREM PromisesKept == Spec => ServersKeepPromise
<1>1. Init => \A s \in Servers : Life(s)!Init
  <2> SUFFICES ASSUME Init, NEW s \in Servers PROVE Life(s)!Init OBVIOUS
  <2>1. srvs[s] = NewServer BY DEF Init
  <2>2. srvs[s].state = "IDLE" /\ srvs[s].open = {} /\ srvs[s].told = 0 BY <2>1 DEF NewServer
  <2> QED BY <2>2, PhaseOf DEF Life!Init
<1>2. Init => Untold BY DEF Init, NewServer, Untold
<1>3. TypeOK /\ Untold /\ [Next]_vars => Untold' BY NextKept DEF Kept
<1>4. TypeOK /\ Untold /\ [Next]_vars => [\A s \in Servers : [ Life(s)!Next ]_(Life(s)!vars)]_vars
  BY NextKept DEF Kept, KeepsPromise
<1> QED BY <1>1, <1>2, <1>3, <1>4, TypeCorrect, PTL DEF Spec, ServersKeepPromise
=============================================================================
