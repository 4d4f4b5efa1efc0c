------------------------- MODULE ComponentSendProofs -------------------------
(***************************************************************************)
(* Consent, the wake-up of writers and the order of what they write        *)
(* (module ComponentSend), for every size of the buffers, every number of  *)
(* components and every setting.                                           *)
(***************************************************************************)
EXTENDS ComponentSend, SequenceTheorems, WellFoundedInduction, TLAPS

\* The fields of a component.
Fields == {"sel", "prio", "have", "age", "tick", "next", "host", "st", "agent", "quiet"}
Shaped(cs) == DOMAIN cs = Components /\ \A d \in Components : DOMAIN cs[d] = Fields
Shape == Shaped(comp)

\* From k to l the selected pair stays, and consent does not come back.
Fades(k, l) == DOMAIN l = Fields /\ l.sel = k.sel /\ (l.have => k.have)
AllFade(cs, ds) == DOMAIN ds = Components /\ \A d \in Components : Fades(cs[d], ds[d])

\* Signals, the pseudo-TCP socket and the writer.
Signals == {"writable", "removed"}
Tcps ==
  [st : {"connecting", "established", "fin", "closed"}, q : Seq(Nat), wen : BOOLEAN]
Writers ==
  [pc : {"idle", "loop", "send", "sent", "wait"}, len : Nat, ret : Int, writable : BOOLEAN,
   cancelled : BOOLEAN, woken : BOOLEAN, done : BOOLEAN]
Ios == [gone : BOOLEAN, removed : BOOLEAN, cancelled : BOOLEAN, closed : BOOLEAN]

\* The send buffer is not overfull, and a write that goes on has octets left.
SendTyped ==
  /\ tcp \in Tcps /\ Len(tcp.q) <= SendBuf
  /\ wr \in Writers /\ wr.len <= Count
  /\ wr.pc # "idle" => ~wr.done
  /\ ~wr.done => wr.len < Count
  /\ wr.pc = "sent" => wr.len + wr.ret <= Count
  /\ io \in Ios
  /\ sig \in Seq(Signals)
SendType == Shape /\ SendTyped

\* The connection is up; octets in flight will make it writable.
Up       == sc.mode = "ptcp" /\ tcp.st = "established" /\ ~Refused
Awaited  == tcp.wen /\ tcp.q # <<>>
Signalled == "writable" \in Range(sig)

\* Whoever sleeps, or is about to, is owed a signal; a cancellable that was reset
\* after the last signal waits for octets in flight.
WakeInv ==
  /\ Up /\ wc = "reset" => Awaited
  /\ Up /\ Thread("wait") /\ ~wr.woken => Awaited \/ Signalled
  /\ Up /\ Thread("sent") /\ wr.ret <= 0 /\ ~wr.writable /\ ~wr.cancelled
       => Awaited \/ Signalled

-----------------------------------------------------------------------------
(* Consent.  No step but a selection gives it back.                          *)

\* The component that sends is there.
LEMMA First == 1 \in Components
  BY KeepaliveAssumption

\* The consent tick, with or without a keepalive before it.
LEMMA TickedFades ==
  ASSUME NEW k, DOMAIN k = Fields
  PROVE  Fades(k, ConsentTicked(k))
  BY DEF Fades, ConsentTicked, Fields

\* A keepalive check that is sent.
LEMMA CheckSentFades ==
  ASSUME NEW k, DOMAIN k = Fields, NEW id, NEW delay
  PROVE  Fades(k, CheckSent(k, id, delay))
  <1> DEFINE sent == [k EXCEPT !.next = delay, !.quiet = 0,
                               !.agent = Finished(@, "request", "binding", id)]
             aged == [sent EXCEPT !.age = IF @ = None THEN 0 ELSE @]
  <1>1. DOMAIN sent = Fields /\ sent.sel = k.sel /\ sent.have = k.have  BY DEF Fields
  <1>2. CheckSent(k, id, delay) = IF k.have THEN ConsentTicked(aged) ELSE sent
    BY DEF CheckSent
  <1> HIDE DEF sent
  <1>3. DOMAIN aged = Fields /\ aged.sel = sent.sel /\ aged.have = sent.have
    BY <1>1 DEF Fields
  <1> HIDE DEF aged
  <1>4. Fades(aged, ConsentTicked(aged))  BY <1>3, TickedFades
  <1> QED  BY <1>1, <1>2, <1>3, <1>4 DEF Fades

\* One component fades, the others stay.
LEMMA OneFades ==
  ASSUME NEW cs, Shaped(cs), NEW d, NEW l, d \in Components => Fades(cs[d], l)
  PROVE  AllFade(cs, [cs EXCEPT ![d] = l])
  BY DEF Shaped, AllFade, Fades

\* A keepalive, for whichever component.
LEMMA SendFades ==
  ASSUME NEW cs, Shaped(cs), NEW t, SendKeepalive(cs, t)
  PROVE  AllFade(cs, comp')
  <1>1. CASE SendCheck(cs, t)
    <2> DEFINE d == Min(Senders(cs))
    <2>1. PICK delay \in ConsentDelays :
            comp' = [cs EXCEPT ![d] = CheckSent(@, FreeId(cs, d), delay)]
      BY <1>1 DEF SendCheck
    <2> HIDE DEF d
    <2>2. d \in Components => Fades(cs[d], CheckSent(cs[d], FreeId(cs, d), delay))
      BY CheckSentFades DEF Shaped
    <2> QED  BY <2>1, <2>2, OneFades
  <1>2. CASE SendIndication(cs, t)
    <2> DEFINE d == Min(Senders(cs))
    <2>1. comp' = [cs EXCEPT ![d] = [@ EXCEPT !.next = Tr, !.quiet = 0]]
      BY <1>2 DEF SendIndication
    <2> HIDE DEF d
    <2>2. d \in Components => Fades(cs[d], [cs[d] EXCEPT !.next = Tr, !.quiet = 0])
      BY DEF Shaped, Fades, Fields
    <2> QED  BY <2>1, <2>2, OneFades
  <1>3. CASE SendHost(cs, t)
    <2> DEFINE d == Min(HostSenders(cs))
    <2>1. comp' = [cs EXCEPT ![d] = [@ EXCEPT !.host = Tr]]
      BY <1>3 DEF SendHost
    <2> HIDE DEF d
    <2>2. d \in Components => Fades(cs[d], [cs[d] EXCEPT !.host = Tr])
      BY DEF Shaped, Fades, Fields
    <2> QED  BY <2>1, <2>2, OneFades
  <1>4. CASE SendNone(cs, t)  BY <1>4 DEF SendNone, AllFade, Fades, Shaped
  <1> QED  BY <1>1, <1>2, <1>3, <1>4 DEF SendKeepalive

\* What the StunAgents, the ticks, the peer, restarts and time do.
LEMMA StunningFades ==
  ASSUME Shape, Stunning
  PROVE  AllFade(comp, comp') /\ sc' = sc
  <1>0. Shaped(comp)  BY DEF Shape
  <1>a. ASSUME comp' = comp PROVE AllFade(comp, comp')
    BY <1>0, <1>a DEF Shaped, AllFade, Fades
  <1>1. CASE KeepaliveTick  BY <1>0, <1>1, SendFades DEF KeepaliveTick
  <1>2. ASSUME NEW d \in Components, ConsentTick(d)
        PROVE  AllFade(comp, comp') /\ sc' = sc
    <2>1. Fades(comp[d], ConsentTicked(comp[d]))  BY <1>0, TickedFades DEF Shaped
    <2>2. comp' = [comp EXCEPT ![d] = ConsentTicked(comp[d])] /\ sc' = sc
      BY <1>2 DEF ConsentTick
    <2> QED  BY <1>0, <2>1, <2>2, OneFades
  <1>3. ASSUME NEW m \in net, Answer(m) \/ Lose(m)
        PROVE  AllFade(comp, comp') /\ sc' = sc
    BY <1>3, <1>a DEF Answer, Lose
  <1>4. ASSUME NEW m \in net, Receive(m)
        PROVE  AllFade(comp, comp') /\ sc' = sc
    <2> DEFINE k == [comp[m.c] EXCEPT !.agent = Validated(@, Stun(m))]
               status == Status(comp[m.c].agent, Stun(m))
               l == CASE status = "FORBIDDEN" -> Revoked(k, m.pair)
                      [] status = "SUCCESS"   -> Refreshed(k)
                      [] OTHER                -> k
    <2>1. comp' = [comp EXCEPT ![m.c] = l] /\ sc' = sc  BY <1>4 DEF Receive
    <2>2. ASSUME m.c \in Components PROVE Fades(comp[m.c], l)
      <3>1. DOMAIN comp[m.c] = Fields  BY <1>0, <2>2 DEF Shaped
      <3>2. Fades(comp[m.c], k)  BY <3>1 DEF Fades, Fields
      <3>3. l = Revoked(k, m.pair) \/ l = Refreshed(k) \/ l = k  OBVIOUS
      <3> HIDE DEF k, l
      <3>4. Fades(k, Revoked(k, m.pair)) /\ Fades(k, Refreshed(k))
        BY <3>2, SMTT(30), Z3T(30) DEF Fades, Fields, Revoked, Refreshed
      <3> QED  BY <3>2, <3>3, <3>4 DEF Fades
    <2> HIDE DEF l
    <2> QED  BY <1>0, <2>1, <2>2, OneFades
  <1>5. CASE Restart
    BY <1>0, <1>5, ZenonT(30), SMTT(30) DEF Restart, Shaped, AllFade, Fades, Fields
  <1>6. CASE ScheduleNext \/ ConsentLost \/ PeerRestart
    BY <1>6, <1>a, SMTT(30), Z3T(30) DEF ScheduleNext, ConsentLost, PeerRestart
  <1>7. CASE Pass
    BY <1>0, <1>7, ZenonT(30), SMTT(30) DEF Pass, Shaped, AllFade, Fades, Fields
  <1> QED  BY <1>1, <1>2, <1>3, <1>4, <1>5, <1>6, <1>7 DEF Stunning, KeepaliveTick

\* A pair is selected for component 1, and whoever writes is told; or component 1
\* goes on as it was.
LEMMA SelectsTell ==
  ASSUME Shape, Selects
  PROVE  /\ Shape' /\ sc' = sc
         /\ \/ wc' # "reset" /\ sig' = Append(sig, "writable")
            \/ Fades(comp[1], comp'[1]) /\ wc' = wc /\ sig' = sig
  <1> DEFINE p == Head(todo)
             k == comp[p.c]
             l == [SelectedPair(k, p.pair, p.prio) EXCEPT !.st = "ready"]
             cs == [comp EXCEPT ![p.c] = l]
             effective == p.c = 1 /\ (p.op = "select" \/ p.prio > comp[1].prio)
  <1>0. Shaped(comp)  BY DEF Shape
  <1>1. p.c \in Components => DOMAIN l = Fields
    BY <1>0 DEF Shaped, SelectedPair, Fields
  <1>2. Shaped(cs)
    <2> HIDE DEF l, p
    <2> QED  BY <1>0, <1>1 DEF Shaped
  <1>3. p.c # 1 => cs[1] = comp[1]  BY <1>0, First DEF Shaped
  <1>4. effective => wc' # "reset" /\ sig' = Append(sig, "writable")
    BY DEF Selects, SignalWritable
  <1>5. ~effective => wc' = wc /\ sig' = sig  BY DEF Selects
  <1>6. Fades(comp[1], comp[1])  BY <1>0, First DEF Shaped, Fades
  <1>7. CASE UpdateSelectedPair
    <2>1. sc' = sc /\ p.op = "nominate"  BY <1>7 DEF UpdateSelectedPair, Call
    <2>2. CASE p.prio > k.prio
      <3>1. SendKeepalive(cs, timer)  BY <1>7, <2>2 DEF UpdateSelectedPair
      <3> HIDE DEF cs
      <3>2. AllFade(cs, comp')  BY <1>2, <3>1, SendFades
      <3>3. Shape'  BY <3>2 DEF AllFade, Fades, Shape, Shaped
      <3>4. p.c = 1 => effective  BY <2>2
      <3>5. p.c # 1 => Fades(comp[1], comp'[1])  BY <1>3, <3>2, First DEF AllFade, Fades
      <3> HIDE DEF effective
      <3> QED  BY <1>4, <1>5, <2>1, <3>3, <3>4, <3>5 DEF effective
    <2>3. CASE ~(p.prio > k.prio)
      <3>1. comp' = comp  BY <1>7, <2>3 DEF UpdateSelectedPair
      <3>2. Shape'  BY <3>1 DEF Shape, Shaped
      <3>3. ~effective  BY <2>1, <2>3
      <3> QED  BY <1>5, <1>6, <2>1, <3>1, <3>2, <3>3
    <2> QED  BY <2>2, <2>3
  <1>8. CASE SetSelectedPair
    <2>1. sc' = sc /\ p.op = "select" /\ comp' = cs
      BY <1>8 DEF SetSelectedPair, Call
    <2>2. Shape'  BY <1>2, <2>1 DEF Shape, Shaped
    <2>3. CASE p.c = 1  BY <1>4, <2>1, <2>2, <2>3
    <2>4. CASE p.c # 1
      <3>1. ~effective  BY <2>4
      <3>2. comp'[1] = comp[1]  BY <1>3, <2>1, <2>4
      <3> QED  BY <1>5, <1>6, <2>1, <2>2, <3>1, <3>2
    <2> QED  BY <2>3, <2>4
  <1> QED  BY <1>7, <1>8 DEF Selects

\* The stream is removed: component 1 is new.
LEMMA RemoveShape ==
  ASSUME Shape, RemoveStream
  PROVE  /\ Shape' /\ sc' = sc
         /\ \A d \in Components : comp'[d].have => comp[d].have
  <1>1. comp' = [comp EXCEPT ![1] = NewComponent(comp[1].agent.flags)] /\ sc' = sc
    BY DEF RemoveStream
  <1> DEFINE l == NewComponent(comp[1].agent.flags)
  <1>2. DOMAIN l = Fields /\ ~l.have  BY DEF NewComponent, Fields
  <1> HIDE DEF l
  <1> QED  BY <1>1, <1>2 DEF l, Shape, Shaped

\* The pseudo-TCP fails.
LEMMA FailedFades ==
  ASSUME Shape, Failed
  PROVE  AllFade(comp, comp') /\ sc' = sc
  <1>1. comp' = [comp EXCEPT ![1] = [@ EXCEPT !.st = "failed"]] /\ sc' = sc  BY DEF Failed
  <1>2. Fades(comp[1], [comp[1] EXCEPT !.st = "failed"])
    BY First DEF Shape, Shaped, Fades, Fields
  <1> QED  BY <1>1, <1>2, OneFades DEF Shape

\* The other steps leave the components alone.
LEMMA OthersKeep ==
  ASSUME CancelWrite \/ CloseStream \/ Writer \/ Transport
  PROVE  comp' = comp /\ sc' = sc
  BY ZenonT(30), SMTT(30) DEF CancelWrite, CloseStream, Writer, Transport, WriteStarts, WriteLoops, WriteSends,
         WriteSent, WriteWakes, PollWrites, PollSent, PollReady, Opened, Acked, Flushed, Dropped, Emit, kvars

\* What a step does to the components, unless it selects a pair.
LEMMA StepFades ==
  ASSUME Shape, [Next]_vars, ~Selects
  PROVE  /\ Shape' /\ sc' = sc
         /\ \A d \in Components : comp'[d].have => comp[d].have
  <1>1. ASSUME AllFade(comp, comp')
        PROVE  Shape' /\ \A d \in Components : comp'[d].have => comp[d].have
    BY <1>1 DEF Shape, Shaped, AllFade, Fades
  <1>2. ASSUME comp' = comp
        PROVE  Shape' /\ \A d \in Components : comp'[d].have => comp[d].have
    BY <1>2 DEF Shape, Shaped
  <1>3. CASE Stunning  BY <1>1, <1>3, StunningFades
  <1>4. CASE RemoveStream  BY <1>4, RemoveShape
  <1>5. CASE CancelWrite \/ CloseStream \/ Writer \/ Transport  BY <1>2, <1>5, OthersKeep
  <1>6. CASE Failed  BY <1>1, <1>6, FailedFades
  <1>7. CASE UNCHANGED vars  BY <1>2, <1>7 DEF vars, kvars
  <1> QED  BY <1>3, <1>4, <1>5, <1>6, <1>7 DEF Next

\* Every component has its fields, at first and after every step.
LEMMA InitShape == Init => Shape
  BY DEF Init, Shape, Shaped, NewComponent, Fields

\* As above, for a step.
LEMMA ShapeStays == Shape /\ [Next]_vars => Shape'
  BY StepFades, SelectsTell

\* Consent that is lost stays lost, in whatever order answers, ticks, restarts and
\* changes of the other components come, until a pair is selected (the property
\* LostStaysLost).
THEOREM ConsentStaysLost == Spec => LostStaysLost
  <1> DEFINE A == \A c \in Components :
                    comp[c].sel # 0 /\ ~comp[c].have /\ comp'[c].have
                      => todo # <<>> /\ Head(todo).op \in {"nominate", "select"}
                           /\ todo' = Tail(todo)
  <1>1. Shape /\ [Next]_vars => [A]_vars
    <2> SUFFICES ASSUME Shape, [Next]_vars PROVE A  OBVIOUS
    <2>1. CASE Selects
      BY <2>1 DEF Selects, UpdateSelectedPair, SetSelectedPair, Call
    <2>2. CASE ~Selects  BY <2>2, StepFades
    <2> QED  BY <2>1, <2>2
  <1> QED  BY <1>1, InitShape, ShapeStays, PTL DEF Spec, LostStaysLost

-----------------------------------------------------------------------------
(* Waking writers.                                                          *)

\* The least of two numbers.
LEMMA MinIs ==
  ASSUME NEW a \in Int, NEW b \in Int
  PROVE  /\ Min({a, b}) \in {a, b} /\ Min({a, b}) <= a /\ Min({a, b}) <= b
  <1>1. \E x \in {a, b} : \A y \in {a, b} : x =< y
    <2>1. CASE a <= b  BY <2>1
    <2>2. CASE b <= a  BY <2>2
    <2> QED  BY <2>1, <2>2
  <1> QED  BY <1>1 DEF Min

\* A signal that was queued is on its way.
LEMMA AppendSignals ==
  ASSUME NEW s \in Seq(Signals), NEW x \in Signals
  PROVE  Append(s, x) \in Seq(Signals) /\ x \in Range(Append(s, x))
  <1>1. Append(s, x) \in Seq(Signals)  BY AppendProperties
  <1>2. Len(s) + 1 \in DOMAIN Append(s, x) /\ Append(s, x)[Len(s) + 1] = x
    BY AppendProperties, LenProperties
  <1> QED  BY <1>1, <1>2 DEF Range

\* What the pseudo-TCP socket takes of a message, and what its buffer is then.
LEMMA TakenIs ==
  ASSUME tcp \in Tcps, Len(tcp.q) <= SendBuf, NEW data \in Seq(Nat), data # <<>>
  PROVE  /\ TcpTaken(data) \in Seq(Nat) /\ Len(TcpTaken(data)) <= Len(data)
         /\ tcp.q \o TcpTaken(data) \in Seq(Nat)
         /\ Len(tcp.q \o TcpTaken(data)) = Len(tcp.q) + Len(TcpTaken(data))
         /\ Len(tcp.q \o TcpTaken(data)) <= SendBuf
         /\ tcp.st = "established" /\ sc.api # "messages" /\ TcpTaken(data) = <<>>
              => Len(tcp.q) = SendBuf
         /\ sc.api = "messages" => TcpTaken(data) = <<>> \/ Len(TcpTaken(data)) = Len(data)
         /\ \E m \in 0 .. Len(data) : TcpTaken(data) = SubSeq(data, 1, m)
  <1>0. SendBuf \in Nat  BY SendAssumption
  <1>1. tcp.q \in Seq(Nat) /\ Len(tcp.q) \in Nat  BY LenProperties DEF Tcps
  <1>2. Len(data) \in Nat /\ Len(data) > 0  BY LenProperties, EmptySeq
  <1> DEFINE refuses == \/ tcp.st # "established"
                        \/ sc.api = "messages" /\ Len(data) > Space(tcp.q)
  <1>3. CASE refuses
    <2>1. TcpTaken(data) = <<>>  BY <1>3 DEF TcpTaken
    <2>2. <<>> \in Seq(Nat) /\ Len(<<>>) = 0  BY EmptySeq
    <2>3. SubSeq(data, 1, 0) = <<>> /\ 0 \in 0 .. Len(data)
      <3>1. Len(SubSeq(data, 1, 0)) = 0 /\ SubSeq(data, 1, 0) \in Seq(Nat)
        BY <1>2, SubSeqProperties
      <3> QED  BY <1>2, <3>1, EmptySeq
    <2>4. tcp.st = "established" => sc.api = "messages"  BY <1>3
    <2>5. tcp.q \o <<>> \in Seq(Nat) /\ Len(tcp.q \o <<>>) = Len(tcp.q) + Len(<<>>)
      BY <1>1, <2>2, ConcatProperties
    <2> HIDE DEF refuses
    <2> QED  BY <1>0, <1>1, <1>2, <2>1, <2>2, <2>3, <2>4, <2>5
  <1>4. CASE ~refuses
    <2> DEFINE m == Min({SendBuf - Len(tcp.q), Len(data)})
    <2>1. /\ TcpTaken(data) = SubSeq(data, 1, m) /\ tcp.st = "established"
          /\ sc.api = "messages" => Len(data) <= SendBuf - Len(tcp.q)
      <3>1. Space(tcp.q) = SendBuf - Len(tcp.q)  BY <1>4 DEF Space
      <3>2. TcpTaken(data) = SubSeq(data, 1, Min({Space(tcp.q), Len(data)}))
        BY <1>4 DEF TcpTaken
      <3> QED  BY <1>0, <1>1, <1>2, <1>4, <3>1, <3>2
    <2>0. SendBuf - Len(tcp.q) \in Int /\ Len(data) \in Int  BY <1>0, <1>1, <1>2
    <2>2. m \in {SendBuf - Len(tcp.q), Len(data)} /\ m <= SendBuf - Len(tcp.q) /\ m <= Len(data)
      BY ONLY <2>0, MinIs, Zenon
    <2> HIDE DEF m
    <2>3. m \in 0 .. Len(data)  BY <1>0, <1>1, <1>2, <2>2
    <2>4. SubSeq(data, 1, m) \in Seq(Nat) /\ Len(SubSeq(data, 1, m)) = m
      BY <1>2, <2>3, SubSeqProperties
    <2>5. SubSeq(data, 1, m) = <<>> => m = 0  BY <2>4, EmptySeq
    <2> DEFINE u == SubSeq(data, 1, m)
    <2>6. tcp.q \o u \in Seq(Nat) /\ Len(tcp.q \o u) = Len(tcp.q) + Len(u)
      BY <1>1, <2>4, ConcatProperties
    <2>7. u = <<>> => Len(tcp.q) = SendBuf  BY <1>0, <1>1, <1>2, <2>2, <2>5
    <2>8. Len(u) = m /\ (sc.api = "messages" => m = Len(data))
      BY <1>0, <1>1, <1>2, <2>1, <2>2, <2>4
    <2>9. m <= Len(data) /\ Len(tcp.q) + m <= SendBuf
      BY <1>0, <1>1, <1>2, <2>2, <2>3
    <2> HIDE DEF u
    <2> QED  BY <2>1, <2>3, <2>4, <2>6, <2>7, <2>8, <2>9 DEF u
  <1> QED  BY <1>3, <1>4

\* The octets that are left to write.
LEMMA OctetsIs ==
  ASSUME NEW len \in Nat, len < Count
  PROVE  /\ Octets(len) \in Seq(Nat) /\ Len(Octets(len)) = Count - len
         /\ Octets(len) # <<>>
  <1>1. Count \in Nat  BY SendAssumption
  <1>2. Count - len \in Nat  BY <1>1
  <1>3. \A i \in 1 .. Count - len : len + i \in Nat  BY <1>1
  <1>4. Octets(len) \in [1 .. Count - len -> Nat]  BY <1>3 DEF Octets
  <1>5. Octets(len) \in Seq(Nat)  BY <1>2, <1>4, SeqDef
  <1>6. Len(Octets(len)) = Count - len  BY <1>2, <1>4, <1>5, LenProperties, SMTT(30), Z3T(30)
  <1> QED  BY <1>1, <1>5, <1>6, EmptySeq

\* nice_agent_send of what is left: the buffer holds, a part of the message is
\* taken at most, and whoever is told to wait, or finds the cancellable reset,
\* left octets in a buffer that will call back.
LEMMA SendKeeps ==
  ASSUME SendType, ~wr.done, AgentSend(Octets(wr.len))
  PROVE  /\ tcp' \in Tcps /\ Len(tcp'.q) <= SendBuf /\ tcp'.st = tcp.st
         /\ \E x \in Int : /\ wr' = [wr EXCEPT !.pc = "sent", !.ret = x]
                           /\ wr.len + x <= Count
         /\ Awaited => Awaited'
         /\ Up /\ wc' = "reset" => wc = "reset" \/ Awaited'
         /\ Up /\ wr'.ret <= 0 /\ sc.api # "messages" => Awaited'
  <1> DEFINE data == Octets(wr.len)
             u == TcpTaken(data)
             q == tcp.q \o u
  <1>0. {Count, SendBuf} \subseteq Nat \ {0}  BY SendAssumption
  <1>1. wr.len \in Nat /\ wr.len < Count /\ wr \in Writers  BY DEF SendType, SendTyped, Writers
  <1>2. data \in Seq(Nat) /\ Len(data) = Count - wr.len /\ data # <<>>  BY <1>1, OctetsIs
  <1>3. tcp \in Tcps /\ Len(tcp.q) <= SendBuf  BY DEF SendType, SendTyped
  <1>4. tcp.q \in Seq(Nat) /\ Len(tcp.q) \in Nat  BY <1>3, LenProperties DEF Tcps
  <1>5. AgentSend(data)  BY SMTT(30), Z3T(30)
  <1> HIDE DEF data
  <1>6. CASE Refused
    <2>1. wr' = [wr EXCEPT !.pc = "sent", !.ret = -1] /\ UNCHANGED <<tcp, wc>>
      BY <1>5, <1>6 DEF AgentSend
    <2>2. -1 \in Int /\ wr.len + (-1) <= Count  BY <1>0, <1>1, SMTT(30), Z3T(30)
    <2>3. \E x \in Int : wr' = [wr EXCEPT !.pc = "sent", !.ret = x] /\ wr.len + x <= Count
      BY <2>1, <2>2, ZenonT(30), SMTT(30)
    <2>4. ~Up  BY <1>6 DEF Up
    <2>5. Awaited => Awaited'  BY <2>1, SMTT(30), Z3T(30) DEF Awaited
    <2> QED  BY <1>3, <2>1, <2>3, <2>4, <2>5, ZenonT(30), SMTT(30)
  <1>7. CASE ~Refused /\ sc.mode = "tcp"
    <2>1. \E x \in {Len(data), -1} : wr' = [wr EXCEPT !.pc = "sent", !.ret = x] /\ UNCHANGED tcp
      BY <1>5, <1>7, ZenonT(30), SMTT(30) DEF AgentSend
    <2>2. \A x \in {Len(data), -1} : x \in Int /\ wr.len + x <= Count  BY <1>0, <1>1, <1>2
    <2>3. ~Up  BY <1>7, SMTT(30), Z3T(30) DEF Up
    <2> QED  BY <1>3, <2>1, <2>2, <2>3, ZenonT(30), SMTT(30) DEF Awaited
  <1>8. CASE ~Refused /\ sc.mode = "ptcp"
    <2> DEFINE x == IF u = <<>> THEN -1 ELSE Len(u)
               e == \/ tcp.wen
                    \/ tcp.st = "established" /\ sc.api # "messages" /\ Len(u) < Len(data)
                    \/ Space(q) = 0
    <2>1. /\ u \in Seq(Nat) /\ Len(u) <= Len(data)
          /\ q \in Seq(Nat) /\ Len(q) = Len(tcp.q) + Len(u) /\ Len(q) <= SendBuf
          /\ tcp.st = "established" /\ sc.api # "messages" /\ u = <<>> => Len(tcp.q) = SendBuf
      BY <1>2, <1>3, TakenIs
    <2>2. /\ tcp' = [tcp EXCEPT !.q = q, !.wen = e]
          /\ wc' = IF Space(q) = 0 /\ wc # "gone" THEN "reset" ELSE wc
          /\ wr' = [wr EXCEPT !.pc = "sent", !.ret = x]
      BY <1>5, <1>8 DEF AgentSend, TcpSends
    <2>3. tcp.st = "established" => Space(q) = SendBuf - Len(q)  BY DEF Space
    <2>4. e \in BOOLEAN  BY <1>3 DEF Tcps
    <2>5. Len(u) \in Nat /\ (u = <<>> <=> Len(u) = 0)  BY <2>1, LenProperties, EmptySeq
    <2>6. x \in Int /\ wr.len + x <= Count  BY <1>0, <1>1, <1>2, <2>1, <2>5
    <2>7. Len(q) > 0 => q # <<>>  BY EmptySeq
    <2>8. tcp.q # <<>> => Len(tcp.q) > 0  BY <1>4, EmptySeq
    <2>9. tcp.q # <<>> => q # <<>>  BY <1>4, <2>1, <2>5, <2>7, <2>8
    <2>10. tcp.st = "established" /\ sc.api # "messages" /\ u = <<>> => e /\ q # <<>>
      BY <1>0, <1>1, <1>2, <1>4, <2>1, <2>5, <2>7
    <2>11. tcp.st = "established" /\ Space(q) = 0 => e /\ q # <<>>
      BY <1>0, <1>4, <2>1, <2>3, <2>5, <2>7
    <2>12. x <= 0 => u = <<>>  BY <2>5
    <2>13. tcp.wen => e  OBVIOUS
    <2>14. wc' = "reset" => wc = "reset" \/ Space(q) = 0  BY <2>2
    <2> HIDE DEF e, q, u, x
    <2>15. tcp' \in Tcps /\ tcp'.q = q /\ tcp'.wen = e /\ tcp'.st = tcp.st
      BY <1>3, <2>1, <2>2, <2>4 DEF Tcps
    <2>16. wr'.ret = x  BY <1>1, <2>2 DEF Writers
    <2> QED
      BY <2>1, <2>2, <2>6, <2>9, <2>10, <2>11, <2>12, <2>13, <2>14, <2>15, <2>16,
         ZenonT(30), SMTT(30)
      DEF Awaited, Up
  <1> QED  BY <1>5, <1>6, <1>7, <1>8, ZenonT(30), SMTT(30) DEF AgentSend

\* Refusal depends on the pair, the consent, the stream and the connection.
LEMMA UpKeeps ==
  ASSUME Shape, sc' = sc, tcp'.st = tcp.st, io'.gone = io.gone, Fades(comp[1], comp'[1])
  PROVE  Up' => Up
  BY DEF Up, Refused, Fades

\* No one else's step wakes, resets or puts to sleep.
LEMMA StaysWoken ==
  ASSUME WakeInv, Up' => Up, sc' = sc, UNCHANGED <<tcp, wc, wr, sig>>
  PROVE  WakeInv'
  BY DEF WakeInv, Awaited, Signalled, Thread

\* After a writable signal everyone is owed that signal.
LEMMA ToldIsWoken ==
  ASSUME "writable" \in Range(sig'), wc' # "reset"
  PROVE  WakeInv'
  BY DEF WakeInv, Signalled

\* Nobody is owed anything by a connection that is not up.
LEMMA DownIsWoken ==
  ASSUME ~Up'
  PROVE  WakeInv'
  BY DEF WakeInv

\* The writer goes on elsewhere than to sleep.
LEMMA AwakeIsWoken ==
  ASSUME WakeInv, Up' => Up, UNCHANGED <<tcp, wc>>,
         Thread("wait")' => wr'.woken,
         Thread("sent")' => wr'.writable \/ wr'.cancelled \/ wr'.ret > 0, wr'.ret \in Int
  PROVE  WakeInv'
  BY DEF WakeInv, Awaited

\* The steps of whoever writes.
LEMMA WriterKeeps ==
  ASSUME SendType, WakeInv, Writer
  PROVE  SendTyped' /\ WakeInv'
  <1>1. UNCHANGED kvars /\ UNCHANGED <<sig, io>>
    BY DEF Writer, WriteStarts, WriteLoops, WriteSends, WriteSent, WriteWakes, PollWrites,
           PollSent, PollReady
  <1>2. comp' = comp /\ sc' = sc  BY <1>1 DEF kvars
  <1>3. Fades(comp[1], comp'[1])  BY <1>2, First DEF SendType, Shape, Shaped, Fades
  <1>4. tcp'.st = tcp.st => (Up' => Up)  BY <1>1, <1>2, <1>3, UpKeeps DEF SendType
  <1>5. /\ tcp \in Tcps /\ Len(tcp.q) <= SendBuf /\ wr \in Writers /\ wr.len <= Count
        /\ wr.pc # "idle" => ~wr.done
        /\ ~wr.done => wr.len < Count
        /\ wr.pc = "sent" => wr.len + wr.ret <= Count
        /\ io \in Ios /\ sig \in Seq(Signals)
    BY DEF SendType, SendTyped
  <1>6. Count \in Nat  BY SendAssumption
  <1>7. wr.len \in Nat /\ wr.ret \in Int  BY <1>5 DEF Writers
  <1>8. ASSUME UNCHANGED <<tcp, wc>>, wr' \in Writers, wr'.pc \in {"idle", "loop", "send"}
        PROVE  WakeInv'
    <2>1. wr'.ret \in Int  BY <1>8 DEF Writers
    <2>2. Thread("wait")' => wr'.woken  BY <1>8 DEF Thread
    <2>3. Thread("sent")' => wr'.writable \/ wr'.cancelled \/ wr'.ret > 0  BY <1>8 DEF Thread
    <2>4. Up' => Up  BY <1>4, <1>8
    <2> QED  BY <1>8, <2>1, <2>2, <2>3, <2>4, AwakeIsWoken
  <1>9. ASSUME UNCHANGED tcp, wr' \in Writers, wr'.len <= Count,
               wr'.pc # "idle" => ~wr'.done,
               ~wr'.done => wr'.len < Count,
               wr'.pc = "sent" => wr'.len + wr'.ret <= Count
        PROVE  SendTyped'
    BY <1>1, <1>5, <1>9 DEF SendTyped
  <1>10. CASE WriteStarts
    <2>1. UNCHANGED <<tcp, wc>>  BY <1>10 DEF WriteStarts
    <2>2. /\ wr' \in Writers /\ wr'.pc \in {"idle", "loop"} /\ wr'.len = wr.len
          /\ wr'.pc # "idle" => ~wr'.done
          /\ ~wr'.done => wr.len < Count
      BY <1>5, <1>10 DEF WriteStarts, Thread, Writers, Ios
    <2> QED  BY <1>5, <1>8, <1>9, <2>1, <2>2
  <1>11. CASE WriteLoops
    <2>1. UNCHANGED <<tcp, wc>>  BY <1>11 DEF WriteLoops
    <2>2. /\ wr' \in Writers /\ wr'.pc \in {"idle", "send"} /\ wr'.len = wr.len
          /\ wr'.pc # "idle" => ~wr'.done
          /\ ~wr'.done => wr.len < Count
      BY <1>5, <1>11 DEF WriteLoops, WriteReturns, Thread, Writers
    <2> QED  BY <1>5, <1>8, <1>9, <2>1, <2>2
  <1>12. CASE WriteWakes
    <2>1. UNCHANGED <<tcp, wc>>  BY <1>12 DEF WriteWakes
    <2>2. /\ wr' \in Writers /\ wr'.pc = "loop" /\ wr'.len = wr.len
          /\ ~wr'.done /\ wr.len < Count
      BY <1>5, <1>12 DEF WriteWakes, Thread, Writers
    <2> QED  BY <1>5, <1>8, <1>9, <2>1, <2>2
  <1>13. CASE WriteSent
    <2>0. UNCHANGED <<tcp, wc>> /\ wr.pc = "sent" /\ ~wr.done /\ wr.len < Count
      BY <1>5, <1>13 DEF WriteSent, Thread
    <2>1. CASE wr.ret <= 0
      <3>1. wr' = [wr EXCEPT !.pc = IF wr.writable \/ wr.cancelled THEN "loop" ELSE "wait",
                             !.woken = FALSE]
        BY <1>13, <2>1 DEF WriteSent
      <3>2. wr' \in Writers /\ wr'.pc \in {"loop", "wait"} /\ wr'.len = wr.len /\ ~wr'.done
        BY <1>5, <2>0, <3>1 DEF Writers
      <3>3. SendTyped'  BY <1>5, <1>9, <2>0, <3>2
      <3>4. CASE wr.writable \/ wr.cancelled
        <4>1. wr'.pc = "loop"  BY <1>5, <3>1, <3>4 DEF Writers
        <4> QED  BY <1>8, <2>0, <3>2, <3>3, <4>1
      <3>5. CASE ~(wr.writable \/ wr.cancelled)
        <4>1. wr'.pc = "wait"  BY <1>5, <3>1, <3>5 DEF Writers
        <4>2. Up' => Up  BY <1>4, <2>0
        <4>3. Thread("sent")  BY <1>13 DEF WriteSent
        <4>4. Up => Awaited \/ Signalled  BY <2>1, <3>5, <4>3 DEF WakeInv
        <4>5. Up' /\ wc' = "reset" => Awaited'  BY <2>0, <4>2 DEF WakeInv, Awaited
        <4>6. Up' => Awaited' \/ Signalled'  BY <1>1, <2>0, <4>2, <4>4 DEF Awaited, Signalled
        <4> QED  BY <3>3, <4>5, <4>6 DEF WakeInv
      <3> QED  BY <3>4, <3>5
    <2>2. CASE ~(wr.ret <= 0)
      <3>1. /\ wr' \in Writers /\ wr'.pc \in {"idle", "loop"} /\ wr'.len = wr.len + wr.ret
            /\ wr'.pc # "idle" => ~wr'.done
            /\ ~wr'.done => wr.len + wr.ret < Count
        <4> DEFINE n == wr.len + wr.ret
                   z == 0
        <4>1. n \in Nat  BY <1>7, <2>2
        <4>2. wr' = IF n < Count
                    THEN [wr EXCEPT !.pc = "loop", !.len = n, !.ret = z, !.done = FALSE,
                                    !.woken = wr.woken]
                    ELSE [wr EXCEPT !.pc = "idle", !.len = n, !.ret = z, !.done = TRUE,
                                    !.woken = FALSE]
          BY <1>5, <1>13, <2>0, <2>2 DEF WriteSent, WriteReturns, Writers
        <4>w. wr \in Writers /\ wr.woken \in BOOLEAN /\ z \in Int  BY <1>5 DEF Writers
        <4>n. n = wr.len + wr.ret  OBVIOUS
        <4> HIDE DEF n, z
        <4>3. CASE n < Count
          <5>1. wr' \in Writers /\ wr'.pc = "loop" /\ wr'.len = n /\ wr'.done = FALSE
            BY <4>1, <4>2, <4>3, <4>w DEF Writers
          <5> QED  BY <4>3, <4>n, <5>1
        <4>4. CASE ~(n < Count)
          <5>1. wr' \in Writers /\ wr'.pc = "idle" /\ wr'.len = n /\ wr'.done = TRUE
            BY <4>1, <4>2, <4>4, <4>w DEF Writers
          <5> QED  BY <4>n, <5>1
        <4> QED  BY <4>3, <4>4
      <3> QED  BY <1>5, <1>8, <1>9, <2>0, <3>1
    <2> QED  BY <2>1, <2>2
  <1>14. ASSUME ~wr.done, AgentSend(Octets(wr.len))
         PROVE  SendTyped' /\ WakeInv'
    <2>1. /\ tcp' \in Tcps /\ Len(tcp'.q) <= SendBuf /\ tcp'.st = tcp.st
          /\ \E x \in Int : wr' = [wr EXCEPT !.pc = "sent", !.ret = x] /\ wr.len + x <= Count
          /\ Up /\ wc' = "reset" => wc = "reset" \/ Awaited'
          /\ Awaited => Awaited'
          /\ Up /\ wr'.ret <= 0 /\ sc.api # "messages" => Awaited'
      BY <1>14, SendKeeps, ZenonT(30), SMTT(30)
    <2>2. /\ wr' \in Writers /\ wr'.pc = "sent" /\ wr'.len = wr.len /\ ~wr'.done
          /\ wr.len + wr'.ret <= Count
      BY <1>5, <1>14, <2>1 DEF Writers
    <2>3. SendTyped'  BY <1>1, <1>5, <1>14, <2>1, <2>2 DEF SendTyped
    <2>4. Up' => Up  BY <1>4, <2>1
    <2>5. Up' /\ wc' = "reset" => Awaited'  BY <2>1, <2>4 DEF WakeInv
    <2>6. ~Thread("wait")'  BY <2>2 DEF Thread
    <2>7. Up' /\ wr'.ret <= 0 /\ Thread("sent")' => Awaited'
      BY <1>2, <2>1, <2>4 DEF Thread
    <2> QED  BY <2>3, <2>5, <2>6, <2>7 DEF WakeInv
  <1>15. CASE WriteSends
    <2>1. ~wr.done  BY <1>5, <1>15 DEF WriteSends, Thread
    <2> QED  BY <1>14, <1>15, <2>1 DEF WriteSends
  <1>16. CASE PollWrites
    <2>1. CASE io.closed /\ wr' = [wr EXCEPT !.done = TRUE] /\ UNCHANGED <<tcp, links, wc>>
      <3>1. wr' \in Writers /\ wr'.pc = "idle" /\ wr'.len = wr.len /\ wr'.done
        BY <1>5, <1>16, <2>1 DEF PollWrites, Loop, Writers
      <3> QED  BY <1>5, <1>8, <1>9, <2>1, <3>1
    <2>2. CASE AgentSend(Octets(wr.len))  BY <1>14, <1>16, <2>2 DEF PollWrites
    <2> QED  BY <1>16, <2>1, <2>2 DEF PollWrites
  <1>17. CASE PollSent
    <2>0. UNCHANGED <<tcp, wc>> /\ wr.pc = "sent" /\ ~wr.done /\ wr.len < Count /\ ~Thread("wait")'
      BY <1>2, <1>5, <1>17 DEF PollSent, Loop, Thread
    <2>1. /\ wr' \in Writers /\ wr'.pc \in {"idle", "wait"} /\ wr'.len <= Count
          /\ wr'.pc # "idle" => ~wr'.done
          /\ ~wr'.done => wr'.len < Count
      <3>1. CASE wr.ret <= 0
        <4>1. \/ wr' = [wr EXCEPT !.pc = "wait", !.woken = FALSE]
              \/ wr' = [wr EXCEPT !.pc = "idle", !.done = TRUE]
          BY <1>17, <3>1 DEF PollSent
        <4> QED  BY <1>5, <2>0, <4>1 DEF Writers
      <3>2. CASE ~(wr.ret <= 0)
        <4> DEFINE n == wr.len + wr.ret
        <4>1. n \in Nat /\ n <= Count /\ (n # Count => n < Count)
          BY <1>5, <1>6, <1>7, <2>0, <3>2
        <4> DEFINE d == n = Count
                   z == 0
        <4>2. wr' = [wr EXCEPT !.pc = "idle", !.len = n, !.ret = z, !.done = d,
                               !.woken = wr.woken]
          BY <1>5, <1>17, <3>2 DEF PollSent, Writers
        <4>w. wr \in Writers /\ wr.woken \in BOOLEAN /\ z \in Int /\ d \in BOOLEAN
          BY <1>5 DEF Writers
        <4>3. ~d => n < Count  BY <4>1
        <4> HIDE DEF n, d, z
        <4>4. wr' \in Writers /\ wr'.pc = "idle" /\ wr'.len = n /\ wr'.done = d
          BY <4>1, <4>2, <4>w DEF Writers
        <4> QED  BY <4>1, <4>3, <4>4
      <3> QED  BY <3>1, <3>2
    <2>2. ~Thread("sent")'  BY <2>1 DEF Thread
    <2>3. Up' => Up  BY <1>4, <2>0
    <2>4. wr'.ret \in Int  BY <2>1 DEF Writers
    <2> QED  BY <1>9, <2>0, <2>1, <2>2, <2>3, <2>4, AwakeIsWoken
  <1>18. CASE PollReady
    <2>1. /\ tcp' \in Tcps /\ tcp'.q = tcp.q
          /\ wr' \in Writers /\ wr'.pc \in {"idle", "wait"} /\ wr'.len = wr.len /\ ~wr'.done
      BY <1>5, <1>18 DEF PollReady, Loop, Tcps, Writers
    <2>2. SendTyped'  BY <1>1, <1>5, <1>18, <2>1 DEF SendTyped, PollReady, Loop
    <2>3. sc.api # "stream" /\ wc' = wc  BY <1>18 DEF PollReady, Loop
    <2>4. ~Thread("wait")' /\ ~Thread("sent")'  BY <1>2, <2>3 DEF Thread
    <2>5. tcp'.st = tcp.st /\ (tcp.wen => tcp'.wen)  BY <1>5, <1>18 DEF PollReady, Tcps
    <2>6. (Up' => Up) /\ (Awaited => Awaited')  BY <1>4, <2>1, <2>5 DEF Awaited
    <2> QED  BY <2>2, <2>3, <2>4, <2>6 DEF WakeInv
  <1> QED  BY <1>10, <1>11, <1>12, <1>13, <1>15, <1>16, <1>17, <1>18 DEF Writer

\* The steps of the transport and of the signals.
LEMMA TransportKeeps ==
  ASSUME SendType, WakeInv, Transport
  PROVE  SendTyped' /\ WakeInv'
  <1>1. UNCHANGED kvars
    BY ZenonT(30), SMTT(30) DEF Transport, Opened, Acked, Flushed, Dropped, Emit
  <1>2. comp' = comp /\ sc' = sc  BY <1>1 DEF kvars
  <1>3. Fades(comp[1], comp'[1])  BY <1>2, First DEF SendType, Shape, Shaped, Fades
  <1>4. tcp'.st = tcp.st /\ io'.gone = io.gone => (Up' => Up)
    BY <1>2, <1>3, UpKeeps DEF SendType
  <1>5. /\ tcp \in Tcps /\ Len(tcp.q) <= SendBuf /\ wr \in Writers
        /\ io \in Ios /\ sig \in Seq(Signals)
    BY DEF SendType, SendTyped
  <1>6. tcp.q \in Seq(Nat) /\ Len(tcp.q) \in Nat  BY <1>5, LenProperties DEF Tcps
  <1>7. SendBuf \in Nat /\ RefillSize \in Nat \ {0}  BY SendAssumption
  <1>8. SignalWritable => /\ sig' \in Seq(Signals) /\ "writable" \in Range(sig')
                          /\ wc' # "reset"
    <2>1. "writable" \in Signals  BY DEF Signals
    <2> QED  BY <1>5, <2>1, AppendSignals DEF SignalWritable
  <1>9. ASSUME tcp' \in Tcps, Len(tcp'.q) <= SendBuf, UNCHANGED <<wr, io>>, sig' \in Seq(Signals)
        PROVE  SendTyped'
    BY <1>9 DEF SendType, SendTyped
  <1>10. CASE Opened
    <2>1. tcp' \in Tcps /\ tcp'.q = tcp.q  BY <1>5, <1>10, SMTT(30), Z3T(30) DEF Opened, Tcps
    <2>2. SignalWritable /\ UNCHANGED <<wr, io>>  BY <1>10 DEF Opened
    <2> QED  BY <1>5, <1>8, <1>9, <2>1, <2>2, ToldIsWoken
  <1>11. CASE Acked
    <2>1. PICK n \in 1 .. Len(tcp.q) :
            LET q == SubSeq(tcp.q, n + 1, Len(tcp.q)) IN
            IF tcp.wen /\ Len(q) < RefillSize
            THEN tcp' = [tcp EXCEPT !.q = q, !.wen = FALSE] /\ SignalWritable
            ELSE tcp' = [tcp EXCEPT !.q = q] /\ UNCHANGED <<wc, sig>>
      BY <1>11, ZenonT(30), SMTT(30) DEF Acked
    <2>2. UNCHANGED <<wr, io>>  BY <1>11 DEF Acked
    <2> DEFINE q == SubSeq(tcp.q, n + 1, Len(tcp.q))
    <2>3. n \in Int /\ n >= 1 /\ n <= Len(tcp.q)  BY <1>6
    <2>4. \A i \in n + 1 .. Len(tcp.q) : tcp.q[i] \in Nat  BY <1>6, <2>3, LenProperties
    <2>5. q \in Seq(Nat) /\ Len(q) = (IF n + 1 <= Len(tcp.q) THEN Len(tcp.q) - (n + 1) + 1 ELSE 0)
      BY <1>6, <2>3, <2>4, SubSeqProperties
    <2>6. Len(q) \in Nat /\ Len(q) <= SendBuf
      <3>1. Len(tcp.q) <= SendBuf  BY <1>5
      <3> HIDE DEF q
      <3> QED  BY <1>6, <1>7, <2>3, <2>5, <3>1
    <2>7. q = <<>> => Len(q) = 0  BY EmptySeq
    <2>8. /\ tcp.wen /\ Len(q) < RefillSize
               => tcp' = [tcp EXCEPT !.q = q, !.wen = FALSE] /\ SignalWritable
          /\ ~(tcp.wen /\ Len(q) < RefillSize)
               => tcp' = [tcp EXCEPT !.q = q] /\ UNCHANGED <<wc, sig>>
      BY <2>1
    <2> HIDE DEF q
    <2>9. CASE tcp.wen /\ Len(q) < RefillSize
      <3>1. tcp' \in Tcps /\ tcp'.q = q  BY <1>5, <2>5, <2>8, <2>9 DEF Tcps
      <3> QED  BY <1>8, <1>9, <2>2, <2>6, <2>8, <2>9, <3>1, ToldIsWoken
    <2>10. CASE ~(tcp.wen /\ Len(q) < RefillSize)
      <3>1. tcp' \in Tcps /\ tcp'.q = q /\ tcp'.wen = tcp.wen /\ tcp'.st = tcp.st
        BY <1>5, <2>5, <2>8, <2>10 DEF Tcps
      <3>2. SendTyped'  BY <1>5, <1>9, <2>2, <2>6, <2>8, <2>10, <3>1
      <3>3. Up' => Up  BY <1>4, <2>2, <3>1
      <3>4. tcp.wen => q # <<>>  BY <1>7, <2>6, <2>7, <2>10
      <3>5. Awaited => Awaited'  BY <3>1, <3>4 DEF Awaited
      <3>6. UNCHANGED <<wc, sig, wr>>  BY <2>2, <2>8, <2>10
      <3>7. WakeInv'  BY <1>2, <3>3, <3>5, <3>6 DEF WakeInv, Signalled, Thread
      <3> QED  BY <3>2, <3>7
    <2> QED  BY <2>9, <2>10
  <1>12. ASSUME NEW p \in Pairs, Flushed(p) \/ Dropped(p)
         PROVE  SendTyped' /\ WakeInv'
    <2>1. UNCHANGED <<tcp, io, wr>> /\ (SignalWritable \/ UNCHANGED <<wc, sig>>)
      BY <1>12, ZenonT(30), SMTT(30) DEF Flushed, Dropped, SocketWritable
    <2>2. CASE SignalWritable  BY <1>5, <1>8, <1>9, <2>1, <2>2, ToldIsWoken
    <2>3. CASE UNCHANGED <<wc, sig>>
      BY <1>2, <1>4, <1>5, <1>9, <2>1, <2>3, StaysWoken
    <2> QED  BY <2>1, <2>2, <2>3
  <1>13. CASE Emit
    <2>1. UNCHANGED <<tcp, wc>> /\ sig # <<>> /\ sig' = Tail(sig)  BY <1>13 DEF Emit
    <2>2. sig' \in Seq(Signals)  BY <1>5, <2>1, HeadTailProperties
    <2>3. \/ wr' = wr /\ ~Connected
          \/ wr' = [wr EXCEPT !.writable = TRUE, !.woken = TRUE]
          \/ wr' = [wr EXCEPT !.cancelled = TRUE, !.woken = TRUE]
      BY <1>13 DEF Emit, EmitWritable, EmitRemoved
    <2>4. io' \in Ios /\ io'.gone = io.gone
      <3>1. Connected \in BOOLEAN  BY DEF Connected
      <3> QED  BY <1>5, <1>13, <3>1 DEF Emit, EmitWritable, EmitRemoved, Ios
    <2>5. wr' \in Writers /\ wr'.pc = wr.pc /\ wr'.len = wr.len /\ wr'.ret = wr.ret /\ wr'.done = wr.done
      BY <1>5, <2>3 DEF Writers
    <2>6. SendTyped'  BY <2>1, <2>2, <2>4, <2>5 DEF SendType, SendTyped
    <2>7. \/ ~Thread("wait")' /\ ~Thread("sent")'
          \/ wr'.woken /\ (wr'.writable \/ wr'.cancelled)
      <3>1. CASE wr' = wr /\ ~Connected  BY <1>2, <3>1 DEF Connected, Thread
      <3>2. CASE wr' = [wr EXCEPT !.writable = TRUE, !.woken = TRUE]  BY <1>5, <3>2 DEF Writers
      <3>3. CASE wr' = [wr EXCEPT !.cancelled = TRUE, !.woken = TRUE]  BY <1>5, <3>3 DEF Writers
      <3> QED  BY <2>3, <3>1, <3>2, <3>3
    <2>8. Up' => Up  BY <1>4, <2>1, <2>4
    <2>9. wr'.ret \in Int  BY <2>5 DEF Writers
    <2> QED  BY <2>1, <2>6, <2>7, <2>8, <2>9, AwakeIsWoken
  <1> QED  BY <1>10, <1>11, <1>12, <1>13 DEF Transport

\* Every step keeps the types and whom a signal is owed.
LEMMA WakeStays == SendType /\ WakeInv /\ [Next]_vars => SendType' /\ WakeInv'
  <1> SUFFICES ASSUME SendType, WakeInv, [Next]_vars PROVE SendType' /\ WakeInv'  OBVIOUS
  <1>0. Shape /\ Shape'  BY ShapeStays DEF SendType
  <1> SUFFICES SendTyped' /\ WakeInv'  BY <1>0 DEF SendType
  <1>1. Fades(comp[1], comp[1])  BY <1>0, First DEF Shape, Shaped, Fades
  <1>2. /\ tcp \in Tcps /\ wr \in Writers /\ io \in Ios /\ sig \in Seq(Signals)
    BY DEF SendType, SendTyped
  <1>3. ASSUME sig' \in Seq(Signals), io' \in Ios, tcp' \in Tcps, tcp'.q = tcp.q, UNCHANGED wr
        PROVE  SendTyped'
    BY <1>3 DEF SendType, SendTyped
  <1>4. CASE Stunning /\ UNCHANGED svars
    <2>1. sc' = sc /\ Fades(comp[1], comp'[1])  BY <1>0, <1>4, StunningFades, First DEF AllFade
    <2>2. UNCHANGED <<tcp, wc, wr, sig, io>>  BY <1>4 DEF svars
    <2>3. Up' => Up  BY <1>0, <2>1, <2>2, UpKeeps
    <2> QED  BY <1>2, <1>3, <2>1, <2>2, <2>3, StaysWoken
  <1>5. CASE Selects
    <2>1. UNCHANGED <<tcp, wr, io>>  BY <1>5 DEF Selects
    <2>2. /\ sc' = sc
          /\ \/ wc' # "reset" /\ sig' = Append(sig, "writable")
             \/ Fades(comp[1], comp'[1]) /\ wc' = wc /\ sig' = sig
      BY <1>0, <1>5, SelectsTell
    <2>3. CASE wc' # "reset" /\ sig' = Append(sig, "writable")
      <3>1. "writable" \in Signals  BY DEF Signals
      <3>2. sig' \in Seq(Signals) /\ "writable" \in Range(sig')  BY <1>2, <2>3, <3>1, AppendSignals
      <3> QED  BY <1>2, <1>3, <2>1, <2>3, <3>2, ToldIsWoken
    <2>4. CASE Fades(comp[1], comp'[1]) /\ wc' = wc /\ sig' = sig
      <3>1. Up' => Up  BY <1>0, <2>1, <2>2, <2>4, UpKeeps
      <3> QED  BY <1>2, <1>3, <2>1, <2>2, <2>4, <3>1, StaysWoken
    <2> QED  BY <2>2, <2>3, <2>4
  <1>6. CASE RemoveStream
    <2>1. UNCHANGED <<tcp, wr>> /\ sig' = Append(sig, "removed") /\ io' = [io EXCEPT !.gone = TRUE]
      BY <1>6 DEF RemoveStream
    <2>2. "removed" \in Signals  BY DEF Signals
    <2>3. sig' \in Seq(Signals)  BY <1>2, <2>1, <2>2, AppendSignals
    <2>4. io' \in Ios /\ io'.gone  BY <1>2, <2>1 DEF Ios
    <2>5. ~Up'  BY <2>4 DEF Up, Refused
    <2> QED  BY <1>2, <1>3, <2>1, <2>3, <2>4, <2>5, DownIsWoken
  <1>7. CASE CancelWrite
    <2>1. /\ UNCHANGED <<tcp, wc, sig>> /\ sc' = sc /\ comp' = comp
          /\ io' = [io EXCEPT !.cancelled = TRUE]
          /\ wr' = IF Connected THEN [wr EXCEPT !.cancelled = TRUE, !.woken = TRUE] ELSE wr
      BY <1>7 DEF CancelWrite
    <2>2. io' \in Ios /\ io'.gone = io.gone  BY <1>2, <2>1 DEF Ios
    <2>3. wr' \in Writers /\ wr'.pc = wr.pc /\ wr'.len = wr.len /\ wr'.ret = wr.ret /\ wr'.done = wr.done
      BY <1>2, <2>1 DEF Writers
    <2>4. SendTyped'  BY <2>1, <2>2, <2>3 DEF SendType, SendTyped
    <2>5. (~Thread("wait")' /\ ~Thread("sent")') \/ (wr'.woken /\ wr'.cancelled)
      <3>1. CASE ~Connected  BY <2>1, <3>1 DEF Connected, Thread
      <3>2. CASE Connected  BY <1>2, <2>1, <3>2 DEF Writers
      <3> QED  BY <3>1, <3>2
    <2>6. Up' => Up  BY <1>0, <1>1, <2>1, <2>2, UpKeeps
    <2>7. wr'.ret \in Int  BY <2>3 DEF Writers
    <2> QED  BY <2>1, <2>4, <2>5, <2>6, <2>7, AwakeIsWoken
  <1>8. CASE CloseStream
    <2>1. UNCHANGED <<wc, sig, wr>> /\ sc' = sc /\ comp' = comp  BY <1>8 DEF CloseStream
    <2>2. io' \in Ios /\ io'.gone = io.gone  BY <1>2, <1>8 DEF CloseStream, Ios
    <2>3. tcp' = tcp \/ tcp' = [tcp EXCEPT !.st = "fin"]  BY <1>8 DEF CloseStream
    <2>4. tcp' \in Tcps /\ tcp'.q = tcp.q  BY <1>2, <2>3 DEF Tcps
    <2>5. SendTyped'  BY <1>2, <1>3, <2>1, <2>2, <2>4
    <2>6. CASE tcp' = tcp
      <3>1. Up' => Up  BY <1>0, <1>1, <2>1, <2>2, <2>6, UpKeeps
      <3> QED  BY <2>1, <2>5, <2>6, <3>1, StaysWoken
    <2>7. CASE tcp' = [tcp EXCEPT !.st = "fin"]
      <3>1. tcp'.st = "fin"  BY <1>2, <2>7 DEF Tcps
      <3>2. ~Up'  BY <3>1 DEF Up
      <3> QED  BY <2>5, <3>2, DownIsWoken
    <2> QED  BY <2>3, <2>6, <2>7
  <1>9. CASE Failed
    <2>1. /\ tcp' = [tcp EXCEPT !.st = "closed"] /\ UNCHANGED <<sig, io>>
          /\ wr' = wr \/ wr' = [wr EXCEPT !.woken = TRUE]
      BY <1>9 DEF Failed
    <2>2. tcp' \in Tcps /\ tcp'.q = tcp.q /\ tcp'.st = "closed"
      BY <1>2, <2>1, SMTT(30), Z3T(30) DEF Tcps
    <2>3. ~Up'  BY <2>2 DEF Up
    <2>4. wr' \in Writers /\ wr'.pc = wr.pc /\ wr'.len = wr.len /\ wr'.ret = wr.ret /\ wr'.done = wr.done
      BY <1>2, <2>1 DEF Writers
    <2>5. SendTyped'  BY <2>1, <2>2, <2>4 DEF SendType, SendTyped
    <2> QED  BY <2>3, <2>5, DownIsWoken
  <1>10. CASE Writer  BY <1>10, WriterKeeps
  <1>11. CASE Transport  BY <1>11, TransportKeeps
  <1>12. CASE UNCHANGED vars
    <2>1. UNCHANGED <<tcp, wc, wr, sig, io, sc, comp>>  BY <1>12 DEF vars, kvars, svars
    <2>2. Up' => Up  BY <1>0, <1>1, <2>1, UpKeeps
    <2> QED  BY <1>2, <1>3, <2>1, <2>2, StaysWoken
  <1> QED  BY <1>4, <1>5, <1>6, <1>7, <1>8, <1>9, <1>10, <1>11, <1>12 DEF Next

\* So they are at the start.
LEMMA InitSent == Init => SendType /\ WakeInv
  <1> SUFFICES ASSUME Init PROVE SendType /\ WakeInv  OBVIOUS
  <1>1. Shape  BY InitShape
  <1>2. <<>> \in Seq(Nat) /\ Len(<<>>) = 0 /\ <<>> \in Seq(Signals)  BY EmptySeq
  <1>3. Count \in Nat \ {0} /\ SendBuf \in Nat  BY SendAssumption
  <1>4. tcp \in Tcps /\ tcp.q = <<>> /\ tcp.st = "connecting"  BY <1>2 DEF Init, Tcps
  <1>5. wr \in Writers /\ wr.pc = "idle" /\ wr.len = 0  BY DEF Init, Writers
  <1>6. io \in Ios /\ sig \in Seq(Signals)  BY <1>2 DEF Init, Ios
  <1>7. SendTyped  BY <1>2, <1>3, <1>4, <1>5, <1>6 DEF SendTyped
  <1>8. WakeInv  BY <1>4 DEF WakeInv, Up
  <1> QED  BY <1>1, <1>7, <1>8 DEF SendType

\* Whoever waits to write gets woken: a thread that sleeps, or a source whose
\* cancellable was reset, has octets in flight in a socket that will call back, or
\* a signal on its way (the property WakeIsDue), for every buffer and every refill
\* size, whatever the other threads and the network do.
THEOREM WritersAreWoken == Spec => []WakeIsDue
  <1>1. WakeInv => WakeIsDue  BY DEF WakeInv, WakeIsDue, Up, Awaited, Signalled
  <1> QED  BY <1>1, InitSent, WakeStays, PTL DEF Spec

-----------------------------------------------------------------------------
(* What is written leaves in order.                                          *)

\* The connections: the pairs of ICE-TCP, and 0 for the pseudo-TCP.
Links == Pairs \cup {0}

\* The pair in use is one the application may select, or none.
PairInv == sc \in Settings /\ todo \in Seq(Calls) /\ comp[1].sel \in Links

\* The message has one buffer, or no frame of it crosses into another one.
Whole == sc.api = "messages" => WithinBuffers(sc.ends)

\* What the connections c have carried or hold, g of it carried, when n octets are
\* reported as sent, the connections d have broken and have lost the octets lo.
Order(g, c, d, lo, n) ==
  /\ \A l \in Links : Ascending(g[l])
  /\ \A l \in Links \ d :
       /\ Ascending(c[l]) /\ Range(c[l]) \subseteq 1 .. n
       /\ \A k \in Links \ (d \cup {l}) : Range(c[k]) \cap Range(c[l]) = {}
  /\ 1 .. n \subseteq lo \cup UNION {Range(c[l]) : l \in Links}

CarriedNow == [l \in Links |-> Carried(l)]

\* The connections carry octets, in order.
LinkInv ==
  /\ sq \in [Pairs -> Seq(Nat)] /\ got \in [Links -> Seq(Nat)] /\ dead \subseteq Pairs
  /\ Order(got, CarriedNow, dead, lost, Reported)

\* A result that has not been added to the length is that of the last send, and
\* a message of several buffers is sent whole or not at all.
FlowInv ==
  /\ wr.pc # "sent" => wr.ret <= 0
  /\ sc.api = "messages" =>
       /\ ~wr.done => wr.len = 0
       /\ wr.pc = "sent" => wr.ret <= 0 \/ wr.len + wr.ret = Count
  /\ Whole => LinkInv

\* The larger of two numbers.
LEMMA MaxTwo ==
  ASSUME NEW a \in Int, NEW b \in Int
  PROVE  Max({a, b}) = IF a <= b THEN b ELSE a
  <1> DEFINE z == CHOOSE c \in {a, b} : \A y \in {a, b} : c >= y
  <1>1. \E c \in {a, b} : \A y \in {a, b} : c >= y  OBVIOUS
  <1>2. z \in {a, b} /\ \A y \in {a, b} : z >= y  BY <1>1, Zenon
  <1>3. Max({a, b}) = z  BY Zenon DEF Max
  <1> HIDE DEF z
  <1> QED  BY <1>2, <1>3

\* Concatenation, its members and its order.
LEMMA Joined ==
  ASSUME NEW s \in Seq(Nat), NEW e \in Seq(Nat)
  PROVE  /\ s \o e \in Seq(Nat)
         /\ Range(s \o e) = Range(s) \cup Range(e)
         /\ Ascending(s \o e) => Ascending(s)
         /\ (Ascending(s) /\ Ascending(e) /\ \A a \in Range(s), b \in Range(e) : a < b)
              => Ascending(s \o e)
  <1> DEFINE t == s \o e
             m == Len(s)
             n == Len(e)
  <1>1. m \in Nat /\ n \in Nat /\ DOMAIN s = 1 .. m /\ DOMAIN e = 1 .. n  BY LenProperties
  <1>2. /\ t \in Seq(Nat) /\ Len(t) = m + n
        /\ \A i \in 1 .. m + n : t[i] = IF i <= m THEN s[i] ELSE e[i - m]
    BY ConcatProperties
  <1>3. DOMAIN t = 1 .. m + n  BY <1>2, LenProperties
  <1> HIDE DEF t, m, n
  <1>4. \A i \in 1 .. m : i \in 1 .. m + n /\ t[i] = s[i]  BY <1>1, <1>2
  <1>5. \A i \in 1 .. n : i + m \in 1 .. m + n /\ t[i + m] = e[i]
    <2> TAKE i \in 1 .. n
    <2>1. i + m \in 1 .. m + n /\ ~(i + m <= m) /\ (i + m) - m = i  BY <1>1
    <2> QED  BY <1>2, <2>1
  <1>6. \A i \in 1 .. m + n :
          \/ i \in 1 .. m /\ t[i] = s[i]
          \/ i > m /\ i - m \in 1 .. n /\ t[i] = e[i - m]
    BY <1>1, <1>2
  <1>7. Range(t) = Range(s) \cup Range(e)
    <2>1. \A x \in Range(t) : x \in Range(s) \cup Range(e)
      BY <1>1, <1>3, <1>6 DEF Range
    <2>2. \A x \in Range(s) : x \in Range(t)  BY <1>1, <1>3, <1>4 DEF Range
    <2>3. \A x \in Range(e) : x \in Range(t)  BY <1>1, <1>3, <1>5 DEF Range
    <2> QED  BY <2>1, <2>2, <2>3
  <1>8. Ascending(t) => Ascending(s)
    <2> SUFFICES ASSUME Ascending(t), NEW i \in 1 .. m, NEW j \in 1 .. m, i < j
                 PROVE  s[i] < s[j]
      BY DEF Ascending, m
    <2>1. t[i] < t[j]  BY <1>2, <1>4 DEF Ascending
    <2> QED  BY <1>4, <2>1
  <1>9. ASSUME Ascending(s), Ascending(e), \A a \in Range(s), b \in Range(e) : a < b
        PROVE  Ascending(t)
    <2> SUFFICES ASSUME NEW i \in 1 .. m + n, NEW j \in 1 .. m + n, i < j
                 PROVE  t[i] < t[j]
      BY <1>2 DEF Ascending
    <2>1. CASE j \in 1 .. m
      <3>1. i \in 1 .. m  BY <1>1, <2>1
      <3>2. s[i] < s[j]  BY <1>9, <2>1, <3>1 DEF Ascending, m
      <3> QED  BY <1>4, <2>1, <3>1, <3>2
    <2>2. CASE j > m /\ i > m
      <3>1. i - m \in 1 .. n /\ j - m \in 1 .. n /\ i - m < j - m
            /\ t[i] = e[i - m] /\ t[j] = e[j - m]
        BY <1>1, <1>2, <2>2
      <3>2. e[i - m] < e[j - m]  BY <1>9, <3>1 DEF Ascending, n
      <3> QED  BY <3>1, <3>2
    <2>3. CASE j > m /\ i <= m
      <3>1. i \in 1 .. m /\ j - m \in 1 .. n /\ t[i] = s[i] /\ t[j] = e[j - m]
        BY <1>1, <1>2, <2>3
      <3>2. s[i] \in Range(s) /\ e[j - m] \in Range(e)  BY <1>1, <3>1 DEF Range
      <3> QED  BY <1>9, <3>1, <3>2
    <2> QED  BY <1>1, <2>1, <2>2, <2>3
  <1> QED  BY <1>2, <1>7, <1>8, <1>9 DEF t

\* Concatenation is associative; a sequence is its first part and the rest.
LEMMA Assoc == \A a, b, c \in Seq(Nat) : (a \o b) \o c = a \o (b \o c)
  <1>1. ASSUME NEW a \in Seq(Nat), NEW b \in Seq(Nat), NEW c \in Seq(Nat)
        PROVE  (a \o b) \o c = a \o (b \o c)
    BY SMT
  <1> QED  BY <1>1, Zenon

\* As above.
LEMMA Parts ==
  ASSUME NEW s \in Seq(Nat), NEW n \in 0 .. Len(s)
  PROVE  /\ SubSeq(s, 1, n) \in Seq(Nat) /\ SubSeq(s, n + 1, Len(s)) \in Seq(Nat)
         /\ Len(SubSeq(s, 1, n)) = n
         /\ \A i \in 1 .. n : SubSeq(s, 1, n)[i] = s[i]
         /\ SubSeq(s, 1, n) \o SubSeq(s, n + 1, Len(s)) = s
  <1> DEFINE L == Len(s)
             a == SubSeq(s, 1, n)
             b == SubSeq(s, n + 1, L)
  <1>1. L \in Nat /\ \A i \in 1 .. L : s[i] \in Nat  BY LenProperties
  <1>2. n \in Int /\ n + 1 \in Int /\ L \in Int /\ 1 \in Int
        /\ (\A i \in 1 .. n : i \in 1 .. L) /\ (\A i \in n + 1 .. L : i \in 1 .. L)
        /\ 1 \in 1 .. L + 1 /\ n \in 1 - 1 .. L /\ L \in n .. L
    BY <1>1
  <1>3. /\ a \in Seq(Nat) /\ Len(a) = (IF 1 <= n THEN n - 1 + 1 ELSE 0)
        /\ \A i \in 1 .. n - 1 + 1 : a[i] = s[1 + i - 1]
    BY <1>1, <1>2, SubSeqProperties
  <1>4. b \in Seq(Nat)  BY <1>1, <1>2, SubSeqProperties
  <1>5. a \o b = SubSeq(s, 1, L)  BY <1>2, ConcatAdjacentSubSeq
  <1>6. SubSeq(s, 1, L) = s  BY SubSeqFull
  <1>7. Len(a) = n /\ \A i \in 1 .. n : a[i] = s[i]
    <2>1. 1 .. n - 1 + 1 = 1 .. n /\ (IF 1 <= n THEN n - 1 + 1 ELSE 0) = n
          /\ \A i \in 1 .. n : 1 + i - 1 = i
      OBVIOUS
    <2> HIDE DEF a
    <2> QED  BY <1>3, <2>1
  <1> QED  BY <1>3, <1>4, <1>5, <1>6, <1>7

\* The first k octets left: those that follow the n sent ones, in order.
LEMMA OctetsFollow ==
  ASSUME NEW n \in Nat, n <= Count, NEW k \in 0 .. Count - n
  PROVE  /\ Octets(n) \in Seq(Nat) /\ Len(Octets(n)) = Count - n
         /\ SubSeq(Octets(n), 1, k) \in Seq(Nat) /\ Ascending(SubSeq(Octets(n), 1, k))
         /\ Range(SubSeq(Octets(n), 1, k)) = n + 1 .. n + k
  <1>1. Count \in Nat  BY SendAssumption
  <1> DEFINE r == Octets(n)
             t == SubSeq(r, 1, k)
  <1>2. r = [i \in 1 .. Count - n |-> n + i]  BY DEF Octets
  <1> HIDE DEF r
  <1>3. Count - n \in Nat /\ \A i \in 1 .. Count - n : n + i \in Nat  BY <1>1
  <1>4. r \in [1 .. Count - n -> Nat]  BY <1>2, <1>3
  <1>5. r \in Seq(Nat) /\ Len(r) = Count - n  BY <1>3, <1>4
  <1>6. t \in Seq(Nat) /\ Len(t) = k /\ \A i \in 1 .. k : t[i] = r[i]  BY <1>5, Parts
  <1> HIDE DEF t
  <1>7. k \in Nat /\ \A i \in 1 .. k : i \in 1 .. Count - n  BY <1>1
  <1>8. \A i \in 1 .. k : t[i] = n + i  BY <1>2, <1>6, <1>7
  <1>9. DOMAIN t = 1 .. k  BY <1>6, LenProperties
  <1>10. Range(t) = n + 1 .. n + k
    <2>1. \A x \in Range(t) : x \in n + 1 .. n + k  BY <1>7, <1>8, <1>9 DEF Range
    <2>2. ASSUME NEW x \in n + 1 .. n + k PROVE x \in Range(t)
      <3>1. x - n \in 1 .. k /\ n + (x - n) = x  BY <1>7
      <3>2. t[x - n] = x  BY <1>8, <3>1
      <3> QED  BY <1>9, <3>1, <3>2 DEF Range
    <2> QED  BY <2>1, <2>2
  <1>11. Ascending(t)
    <2> SUFFICES ASSUME NEW i \in 1 .. k, NEW j \in 1 .. k, i < j PROVE t[i] < t[j]
      BY <1>6 DEF Ascending
    <2>1. t[i] = n + i /\ t[j] = n + j  BY <1>8
    <2> QED  BY <1>7, <2>1
  <1> QED  BY <1>5, <1>6, <1>10, <1>11 DEF r, t

\* A frame begins at or before the octets it carries.
LEMMA FrameBegins ==
  ASSUME NEW x \in Nat \ {0}
  PROVE  FrameStart(x) \in Nat /\ FrameStart(x) <= x - 1
  <1> DEFINE M == MaxFrame
             N == (x - 1) \div M
             R == (x - 1) % M
  <1>0. M \in Nat \ {0} /\ x - 1 \in Nat  BY SendAssumption
  <1> HIDE DEF M
  <1>1. N \in Int /\ R \in Int /\ 0 <= R /\ R < M /\ x - 1 = N * M + R  BY <1>0
  <1> HIDE DEF N, R
  <1>2. N * M <= x - 1  BY <1>0, <1>1
  <1>3. N * M \in Int /\ N * M > -M  BY <1>0, <1>1
  <1>4. N \in Nat  BY <1>0, <1>1, <1>3
  <1>5. N * M \in Nat  BY <1>0, <1>4
  <1>6. FrameStart(x) = N * M  BY Zenon DEF FrameStart, N, M
  <1> QED  BY <1>2, <1>5, <1>6

\* A set of numbers has a least one.
LEMMA LeastIs ==
  ASSUME NEW S, S \subseteq Nat, S # {}
  PROVE  Min(S) \in S
  <1>1. PICK n \in S : \A k \in S : ~(<<k, n>> \in OpToRel(<, Nat))
    BY NatLessThanWellFounded, WFMin, Zenon
  <1>2. \A k \in S : ~(k < n)  BY <1>1, Zenon DEF OpToRel
  <1>3. \A k \in S : n =< k  BY <1>2
  <1> QED  BY <1>1, <1>3, Zenon DEF Min

\* The first buffer holds the first octet.
LEMMA HolderOfFirst ==
  ASSUME NEW n \in Nat \ {0}, NEW ends \in [1 .. n -> Nat]
  PROVE  Holder(ends, 0) = 1
  <1> DEFINE S == {j \in DOMAIN ends : ends[j] >= 0}
  <1>1. S = 1 .. n  OBVIOUS
  <1>2. \A x \in 1 .. n : (\A y \in 1 .. n : x =< y) => x = 1
    <2> SUFFICES ASSUME NEW x \in 1 .. n, \A y \in 1 .. n : x =< y PROVE x = 1  OBVIOUS
    <2>1. 1 \in 1 .. n  OBVIOUS
    <2>2. x =< 1  BY <2>1
    <2> QED  BY <2>2
  <1>3. 1 \in 1 .. n /\ \A y \in 1 .. n : 1 =< y  OBVIOUS
  <1>4. Min(1 .. n) = 1
    <2>1. Min(1 .. n) = CHOOSE x \in 1 .. n : \A y \in 1 .. n : x =< y  BY Zenon DEF Min
    <2> QED  BY <1>2, <1>3, <2>1, Zenon
  <1> QED  BY <1>1, <1>4, Zenon DEF Holder

\* The frames of what is left are what is left.
LEMMA FramedIs ==
  ASSUME NEW n \in Nat, n < Count, sc \in Settings, Whole, sc.api = "messages" => n = 0
  PROVE  Framed(Octets(n), Ends(Octets(n))) = Octets(n)
  <1> DEFINE data == Octets(n)
             L == Len(data)
             ends == Ends(data)
             f(x) == LET o == FrameStart(x)
                         j == Holder(ends, o)
                         y == Start(ends, j) + (x - o)
                     IN  IF y > ends[j] THEN data[y]
                         ELSE IF x <= ends[j] THEN data[x] ELSE Junk
  <1>1. data \in Seq(Nat) /\ L = Count - n  BY OctetsIs
  <1>2. Count \in Nat /\ L \in Nat /\ L > 0
    <2>1. Count \in Nat  BY SendAssumption
    <2> HIDE DEF L
    <2> QED  BY <1>1, <2>1
  <1>3. ASSUME NEW x \in 1 .. L PROVE f(x) = data[x]
    <2> DEFINE o == FrameStart(x)
               j == Holder(ends, o)
    <2>1. o \in Nat /\ o <= x - 1  BY <1>2, FrameBegins
    <2>2. ASSUME o = 0 PROVE j = 1 /\ Start(ends, j) = 0 /\ ends[1] \in Nat
      <3>1. \E m \in Nat \ {0} : ends \in [1 .. m -> Nat]
        <4>1. CASE sc.api = "messages"
          <5>1. ends = sc.ends /\ ends \in Seq(1 .. Count) /\ ends # <<>>
            BY <4>1, SendAssumption DEF Ends
          <5> HIDE DEF ends
          <5>2. Len(ends) \in Nat \ {0} /\ ends \in [1 .. Len(ends) -> 1 .. Count]
            BY <5>1, LenProperties, EmptySeq
          <5>3. ends \in [1 .. Len(ends) -> Nat]
            <6>1. \A i \in 1 .. Len(ends) : ends[i] \in 1 .. Count  BY <5>2
            <6>2. \A i \in 1 .. Len(ends) : ends[i] \in Nat  BY <1>2, <6>1
            <6> QED  BY <5>2, <6>2
          <5> QED  BY <5>2, <5>3
        <4>2. CASE sc.api # "messages"
          <5>1. ends = <<L>>  BY <4>2 DEF Ends
          <5> QED  BY <1>2, <5>1
        <4> QED  BY <4>1, <4>2
      <3> HIDE DEF ends
      <3>2. j = 1  BY <2>2, <3>1, HolderOfFirst
      <3>3. ends[1] \in Nat  BY <3>1
      <3> QED  BY <3>2, <3>3 DEF Start
    <2>3. CASE sc.api # "messages"
      <3>1. ends = <<L>> /\ DOMAIN ends = {1} /\ ends[1] = L  BY <2>3 DEF Ends
      <3>2. L >= o  BY <1>2, <2>1
      <3>3. {i \in DOMAIN ends : ends[i] >= o} = {1}  BY <3>1, <3>2
      <3>4. Min({1}) = 1
        <4>1. Min({1}) \in {1}  BY LeastIs
        <4> QED  BY <4>1
      <3>5. j = 1  BY <3>3, <3>4, Zenon DEF Holder
      <3>6. Start(ends, j) = 0  BY <3>5 DEF Start
      <3>7. Start(ends, j) + (x - o) <= L /\ x <= L  BY <1>2, <2>1, <3>6
      <3> HIDE DEF data, L, ends, o, j
      <3>8. ~(Start(ends, j) + (x - o) > ends[j]) /\ x <= ends[j]
        BY <1>2, <2>1, <3>1, <3>5, <3>6, <3>7
      <3> QED  BY <3>8, Zenon DEF o, j
    <2>4. CASE sc.api = "messages" /\ o = 0
      <3>1. Start(ends, j) + (x - o) = x /\ ends[j] \in Nat  BY <2>2, <2>4
      <3> HIDE DEF data, L, ends, o, j
      <3>2. x > ends[j] \/ x <= ends[j]  BY <1>2, <3>1
      <3> QED  BY <3>1, <3>2, Zenon DEF o, j
    <2>5. CASE sc.api = "messages" /\ o > 0
      <3>1. ends = sc.ends /\ WithinBuffers(ends) /\ n = 0  BY <2>5, Zenon DEF Ends, Whole
      <3>2. x \in 1 .. Count  BY <1>1, <1>2, <3>1
      <3>3. Start(ends, j) <= o /\ x <= ends[j]
        BY <2>5, <3>1, <3>2, Zenon DEF WithinBuffers
      <3>4. ends \in Seq(1 .. Count) /\ DOMAIN ends = 1 .. Len(ends) /\ Len(ends) \in Nat
        BY <3>1, SendAssumption, LenProperties
      <3>5. Len(ends) \in DOMAIN ends /\ ends[Len(ends)] = Count
        BY <3>1, <3>4, SendAssumption, EmptySeq
      <3>6. o <= Count  BY <1>2, <2>1, <3>2
      <3> HIDE DEF ends, o, j
      <3>7. \A i \in DOMAIN ends : i \in Nat /\ ends[i] \in Nat  BY <1>2, <3>4
      <3>8. j \in DOMAIN ends
        <4> DEFINE S == {i \in DOMAIN ends : ends[i] >= o}
        <4>1. S \subseteq Nat /\ S # {}  BY <1>2, <2>1, <3>5, <3>6, <3>7
        <4>2. Min(S) \in S  BY <4>1, LeastIs
        <4>3. j = Min(S)  BY Zenon DEF j, Holder
        <4> QED  BY <4>2, <4>3
      <3>9. Start(ends, j) \in Int
        <4>1. CASE j = 1  BY <4>1 DEF Start
        <4>2. CASE j # 1
          <5>1. j - 1 \in DOMAIN ends  BY <3>4, <3>8, <4>2
          <5> QED  BY <3>7, <4>2, <5>1 DEF Start
        <4> QED  BY <4>1, <4>2
      <3>10. ~(Start(ends, j) + (x - o) > ends[j])
        BY <1>2, <2>1, <3>3, <3>7, <3>8, <3>9
      <3> HIDE DEF data
      <3> QED  BY <3>3, <3>10, Zenon DEF o, j
    <2> QED  BY <2>1, <2>3, <2>4, <2>5
  <1>4. Framed(data, ends) = [x \in 1 .. L |-> f(x)]  BY Zenon DEF Framed
  <1>5. data = [x \in 1 .. L |-> data[x]]  BY <1>1, LenProperties
  <1> HIDE DEF f, data, ends, L
  <1>6. [x \in 1 .. L |-> f(x)] = [x \in 1 .. L |-> data[x]]  BY <1>3, Zenon
  <1> QED  BY <1>4, <1>5, <1>6 DEF data, ends

\* The next k octets join what a connection carries, the other connections rest.
LEMMA OrderGrows ==
  ASSUME NEW g, NEW h, NEW c \in [Links -> Seq(Nat)], NEW d, NEW lo, NEW n \in Nat,
         Order(g, c, d, lo, n), NEW p \in Links, NEW k \in Nat,
         NEW e \in Seq(Nat), Ascending(e), Range(e) = n + 1 .. n + k,
         \A l \in Links : Ascending(h[l])
  PROVE  Order(h, [c EXCEPT ![p] = @ \o e], d, lo, n + k)
  <1> DEFINE b == [c EXCEPT ![p] = c[p] \o e]
  <1>1. c[p] \in Seq(Nat)  OBVIOUS
  <1>2. Range(c[p] \o e) = Range(c[p]) \cup Range(e)  BY <1>1, Joined
  <1>3. b[p] = c[p] \o e /\ \A l \in Links \ {p} : b[l] = c[l]  OBVIOUS
  <1> HIDE DEF b
  <1>4. \A l \in Links : Range(b[l]) = Range(c[l]) \cup (IF l = p THEN n + 1 .. n + k ELSE {})
    BY <1>2, <1>3
  <1>5. \A x \in 1 .. n : x \in 1 .. n + k  OBVIOUS
  <1>6. \A x \in 1 .. n + k : x \in 1 .. n \/ x \in n + 1 .. n + k  OBVIOUS
  <1>7. \A x \in n + 1 .. n + k : x \in 1 .. n + k /\ x \notin 1 .. n  OBVIOUS
  <1>8. ASSUME NEW l \in Links \ d
        PROVE  /\ Ascending(b[l]) /\ Range(b[l]) \subseteq 1 .. n + k
               /\ \A m \in Links \ (d \cup {l}) : Range(b[m]) \cap Range(b[l]) = {}
    <2>1. Ascending(c[l]) /\ Range(c[l]) \subseteq 1 .. n
          /\ \A m \in Links \ (d \cup {l}) :
               Range(c[m]) \cap Range(c[l]) = {} /\ Range(c[m]) \subseteq 1 .. n
      BY DEF Order
    <2>2. Ascending(b[l])
      <3>1. CASE l = p
        <4>1. \A x \in Range(c[l]), y \in Range(e) : x < y
          <5>1. \A x \in 1 .. n, y \in n + 1 .. n + k : x < y  OBVIOUS
          <5> QED  BY <2>1, <5>1
        <4>2. \A x \in Range(c[p]), y \in Range(e) : x < y  BY <3>1, <4>1, Zenon
        <4>3. Ascending(c[p])  BY <2>1, <3>1, Zenon
        <4>4. Ascending(c[p] \o e)  BY <1>1, <4>2, <4>3, Joined
        <4> QED  BY <1>3, <3>1, <4>4, Zenon
      <3>2. CASE l # p  BY <1>3, <2>1, <3>2
      <3> QED  BY <3>1, <3>2
    <2>3. Range(b[l]) \subseteq 1 .. n + k  BY <1>4, <1>5, <1>7, <2>1
    <2>4. ASSUME NEW m \in Links \ (d \cup {l}) PROVE Range(b[m]) \cap Range(b[l]) = {}
      <3>1. Range(c[m]) \cap Range(c[l]) = {} /\ Range(c[m]) \subseteq 1 .. n  BY <2>1
      <3>2. l # m /\ l \in Links /\ m \in Links  OBVIOUS
      <3>3. ASSUME NEW x, x \in Range(b[m]), x \in Range(b[l]) PROVE FALSE
        <4>1. x \in Range(c[m]) \/ (m = p /\ x \in n + 1 .. n + k)  BY <1>4, <3>2, <3>3, Zenon
        <4>2. x \in Range(c[l]) \/ (l = p /\ x \in n + 1 .. n + k)  BY <1>4, <3>2, <3>3, Zenon
        <4> QED  BY <1>7, <2>1, <3>1, <3>2, <4>1, <4>2, Zenon
      <3> QED  BY <3>3, Zenon
    <2> QED  BY <2>2, <2>3, <2>4
  <1>9. 1 .. n + k \subseteq lo \cup UNION {Range(b[l]) : l \in Links}
    <2> SUFFICES ASSUME NEW x \in 1 .. n + k, x \notin lo
                 PROVE  \E l \in Links : x \in Range(b[l])
      OBVIOUS
    <2>1. CASE x \in 1 .. n
      <3>1. PICK l \in Links : x \in Range(c[l])  BY <2>1 DEF Order
      <3> QED  BY <1>4, <3>1
    <2>2. CASE x \in n + 1 .. n + k  BY <1>4, <2>2
    <2> QED  BY <1>6, <2>1, <2>2
  <1>10. Order(h, b, d, lo, n + k)  BY <1>8, <1>9 DEF Order
  <1> QED  BY <1>10 DEF b

\* A connection breaks: what it carried stays carried, or is lost.
LEMMA OrderBreaks ==
  ASSUME NEW g, NEW h, NEW c, NEW b, NEW d, NEW lo, NEW lp, NEW n \in Nat,
         Order(g, c, d, lo, n), NEW p \in Links,
         \A l \in Links : Ascending(h[l]),
         \A l \in Links \ {p} : b[l] = c[l],
         lo \subseteq lp, Range(c[p]) \subseteq lp \cup Range(b[p])
  PROVE  Order(h, b, d \cup {p}, lp, n)
  <1>1. ASSUME NEW l \in Links \ (d \cup {p})
        PROVE  /\ Ascending(b[l]) /\ Range(b[l]) \subseteq 1 .. n
               /\ \A m \in Links \ ((d \cup {p}) \cup {l}) : Range(b[m]) \cap Range(b[l]) = {}
    <2>1. l \in Links \ d /\ b[l] = c[l]  OBVIOUS
    <2>2. ASSUME NEW m \in Links \ ((d \cup {p}) \cup {l})
          PROVE  Range(b[m]) \cap Range(b[l]) = {}
      <3>1. m \in Links \ (d \cup {l}) /\ b[m] = c[m]  OBVIOUS
      <3> QED  BY <2>1, <3>1 DEF Order
    <2> QED  BY <2>1, <2>2 DEF Order
  <1>2. 1 .. n \subseteq lp \cup UNION {Range(b[l]) : l \in Links}
    <2> SUFFICES ASSUME NEW x \in 1 .. n, x \notin lp
                 PROVE  \E l \in Links : x \in Range(b[l])
      OBVIOUS
    <2>1. PICK l \in Links : x \in Range(c[l])  BY DEF Order
    <2>2. CASE l = p  BY <2>1, <2>2
    <2>3. CASE l # p  BY <2>1, <2>3
    <2> QED  BY <2>2, <2>3
  <1> QED  BY <1>1, <1>2 DEF Order

\* Octets move on within the connections.
LEMMA OrderMoves ==
  ASSUME NEW g, NEW h, NEW c, NEW d, NEW lo, NEW n,
         Order(g, c, d, lo, n), \A l \in Links : Ascending(h[l])
  PROVE  Order(h, c, d, lo, n)
  BY DEF Order

\* What the application has still to call shrinks; the pair in use stays, goes, or is
\* the one it selects.
LEMMA PairStays ==
  ASSUME SendType, PairInv, [Next]_vars
  PROVE  PairInv'
  <1>0. Shape /\ Shaped(comp)  BY DEF SendType, Shape
  <1>1. todo \in Seq(Calls) /\ comp[1].sel \in Links /\ sc \in Settings  BY DEF PairInv
  <1>2. todo # <<>> => Tail(todo) \in Seq(Calls) /\ Head(todo) \in Calls
    BY <1>1, HeadTailProperties
  <1>3. ASSUME todo' = todo \/ (todo # <<>> /\ todo' = Tail(todo)), sc' = sc,
               comp'[1].sel \in Links
        PROVE  PairInv'
    BY <1>1, <1>2, <1>3 DEF PairInv
  <1>4. CASE Stunning
    <2>1. AllFade(comp, comp') /\ sc' = sc  BY <1>0, <1>4, StunningFades
    <2>2. comp'[1].sel \in Links  BY <1>1, <2>1, First DEF AllFade, Fades
    <2>3. todo' = todo \/ (todo # <<>> /\ todo' = Tail(todo))
      BY <1>4, ZenonT(30), SMTT(30)
      DEF Stunning, KeepaliveTick, ConsentTick, Answer, Receive, Lose, Restart, ScheduleNext,
          ConsentLost, PeerRestart, Pass, Call
    <2> QED  BY <1>3, <2>1, <2>2, <2>3
  <1>5. CASE Selects
    <2> DEFINE p == Head(todo)
               k == comp[p.c]
               l == [SelectedPair(k, p.pair, p.prio) EXCEPT !.st = "ready"]
               cs == [comp EXCEPT ![p.c] = l]
    <2>1. todo # <<>> /\ todo' = Tail(todo) /\ sc' = sc
      BY <1>5 DEF Selects, UpdateSelectedPair, SetSelectedPair, Call
    <2>2. p \in Calls  BY <1>2, <2>1
    <2> HIDE DEF p
    <2>3. p.pair \in Pairs /\ p.c \in Components  BY <2>2 DEF Calls
    <2>4. DOMAIN l = Fields /\ l.sel = p.pair  BY <1>0, <2>3 DEF Shaped, SelectedPair, Fields
    <2> HIDE DEF l
    <2>5. Shaped(cs) /\ cs[1].sel \in Links
      BY <1>0, <1>1, <2>3, <2>4, First DEF Shaped, Links
    <2> HIDE DEF cs
    <2>6. comp' = comp \/ comp' = cs \/ SendKeepalive(cs, timer)
      BY <1>5 DEF Selects, UpdateSelectedPair, SetSelectedPair, cs, l, p
    <2>7. SendKeepalive(cs, timer) => AllFade(cs, comp')  BY <2>5, SendFades
    <2>8. comp'[1].sel \in Links  BY <1>1, <2>5, <2>6, <2>7, First DEF AllFade, Fades
    <2> QED  BY <1>3, <2>1, <2>8
  <1>6. CASE RemoveStream
    <2>1. comp' = [comp EXCEPT ![1] = NewComponent(comp[1].agent.flags)]
      BY <1>6 DEF RemoveStream
    <2>2. comp'[1].sel = 0  BY <1>0, <2>1, First DEF Shaped, NewComponent
    <2>3. sc' = sc /\ todo # <<>> /\ todo' = Tail(todo)  BY <1>6 DEF RemoveStream, Call
    <2> QED  BY <1>3, <2>2, <2>3 DEF Links
  <1>7. CASE CancelWrite \/ CloseStream \/ Writer \/ Transport
    <2>1. comp' = comp /\ sc' = sc  BY <1>7, OthersKeep
    <2>2. todo' = todo \/ (todo # <<>> /\ todo' = Tail(todo))
      BY <1>7, ZenonT(30), SMTT(30)
      DEF CancelWrite, CloseStream, Call, Writer, Transport, WriteStarts, WriteLoops,
          WriteSends, WriteSent, WriteWakes, PollWrites, PollSent, PollReady, Opened, Acked,
          Flushed, Dropped, Emit, kvars
    <2> QED  BY <1>1, <1>3, <2>1, <2>2
  <1>8. CASE Failed
    <2>1. AllFade(comp, comp') /\ sc' = sc  BY <1>0, <1>8, FailedFades
    <2>2. comp'[1].sel \in Links  BY <1>1, <2>1, First DEF AllFade, Fades
    <2> QED  BY <1>3, <1>8, <2>1, <2>2 DEF Failed
  <1>9. CASE UNCHANGED vars  BY <1>1, <1>3, <1>9 DEF vars, kvars
  <1> QED  BY <1>4, <1>5, <1>6, <1>7, <1>8, <1>9 DEF Next

\* What a connection carries and holds.
LEMMA CarriedIs ==
  ASSUME LinkInv, tcp \in Tcps
  PROVE  /\ CarriedNow \in [Links -> Seq(Nat)] /\ tcp.q \in Seq(Nat)
         /\ 0 \in Links /\ 0 \notin Pairs /\ Pairs \subseteq Links
         /\ CarriedNow[0] = got[0] \o tcp.q
         /\ \A p \in Pairs : CarriedNow[p] = got[p] \o sq[p]
  <1>1. 0 \in Links /\ 0 \notin Pairs /\ Pairs \subseteq Links  BY SendAssumption DEF Links
  <1>2. tcp.q \in Seq(Nat)  BY DEF Tcps
  <1>3. \A l \in Links : CarriedNow[l] = Carried(l)  BY DEF CarriedNow
  <1>4. CarriedNow[0] = got[0] \o tcp.q  BY <1>1, <1>3 DEF Carried
  <1>5. \A p \in Pairs : CarriedNow[p] = got[p] \o sq[p]  BY <1>1, <1>3 DEF Carried
  <1>6. \A l \in Links : CarriedNow[l] \in Seq(Nat)
    <2> TAKE l \in Links
    <2>1. got[l] \in Seq(Nat)  BY DEF LinkInv
    <2>2. CASE l = 0  BY <1>2, <1>4, <2>1, <2>2, Joined
    <2>3. CASE l # 0
      <3>1. l \in Pairs /\ sq[l] \in Seq(Nat)  BY <2>3 DEF Links, LinkInv
      <3> QED  BY <1>5, <2>1, <3>1, Joined
    <2> QED  BY <2>2, <2>3
  <1>7. CarriedNow = [l \in Links |-> CarriedNow[l]]  BY DEF CarriedNow
  <1> HIDE DEF CarriedNow
  <1>8. CarriedNow \in [Links -> Seq(Nat)]  BY <1>6, <1>7
  <1> QED  BY <1>1, <1>2, <1>4, <1>5, <1>8

\* ... and after a step.
LEMMA CarriedNext ==
  /\ DOMAIN CarriedNow' = Links
  /\ CarriedNow'[0] = got'[0] \o tcp'.q
  /\ \A p \in Pairs : CarriedNow'[p] = got'[p] \o sq'[p]
  <1>1. 0 \in Links /\ 0 \notin Pairs /\ Pairs \subseteq Links  BY SendAssumption DEF Links
  <1>2. CarriedNow' = [l \in Links |-> got'[l] \o (IF l = 0 THEN tcp'.q ELSE sq'[l])]
    BY DEF CarriedNow, Carried, Links
  <1> QED  BY <1>1, <1>2

\* Steps that move no octet and report none.
LEMMA FlowRests ==
  ASSUME FlowInv, got' = got, sq' = sq, dead' = dead, lost' = lost, tcp'.q = tcp.q, sc' = sc,
         Reported' = Reported, wr'.pc # "sent" => wr'.ret <= 0,
         sc.api = "messages" =>
           /\ ~wr'.done => wr'.len = 0
           /\ wr'.pc = "sent" => wr'.ret <= 0 \/ wr'.len + wr'.ret = Count
  PROVE  FlowInv'
  <1>1. Whole' = Whole  BY DEF Whole, WithinBuffers, Start, Holder, FrameStart
  <1>2. CarriedNow' = CarriedNow  BY DEF CarriedNow, Carried, Links
  <1> HIDE DEF Whole, CarriedNow, Reported
  <1>3. ASSUME LinkInv PROVE LinkInv'
    <2> USE <1>3
    <2>1. sq' \in [Pairs -> Seq(Nat)] /\ got' \in [Links -> Seq(Nat)] /\ dead' \subseteq Pairs
      BY DEF LinkInv
    <2>2. Order(got, CarriedNow, dead, lost, Reported)  BY DEF LinkInv
    <2>3. Order(got', CarriedNow', dead', lost', Reported')  BY <1>2, <2>2, Zenon
    <2>4. Links' = Links  BY DEF Links
    <2> QED  BY <2>1, <2>3, <2>4, Zenon DEF LinkInv, Order, Ascending
  <1> QED  BY <1>1, <1>3, Zenon DEF FlowInv

\* The pseudo-TCP takes the first k octets left.
LEMMA TcpInOrder ==
  ASSUME LinkInv, tcp \in Tcps, wr.len \in Nat, wr.len < Count, Reported = wr.len,
         NEW k \in 0 .. Count - wr.len, tcp'.q = tcp.q \o SubSeq(Octets(wr.len), 1, k),
         UNCHANGED links, Reported' = wr.len + k
  PROVE  LinkInv'
  <1> DEFINE e == SubSeq(Octets(wr.len), 1, k)
             n == wr.len
             C == CarriedNow
  <1>0. n \in Nat /\ Count \in Nat /\ k \in Nat /\ n <= Count
    <2>1. Count \in Nat  BY SendAssumption
    <2> QED  BY <2>1
  <1>1. UNCHANGED <<sq, dead, got, lost>>  BY DEF links
  <1>2. e \in Seq(Nat) /\ Ascending(e) /\ Range(e) = n + 1 .. n + k
    BY <1>0, OctetsFollow, Zenon
  <1>3. /\ C \in [Links -> Seq(Nat)] /\ tcp.q \in Seq(Nat) /\ 0 \in Links /\ 0 \notin Pairs
        /\ C[0] = got[0] \o tcp.q /\ \A p \in Pairs : C[p] = got[p] \o sq[p]
    BY CarriedIs
  <1>4. got \in [Links -> Seq(Nat)] /\ Order(got, C, dead, lost, n)  BY DEF LinkInv
  <1> HIDE DEF e, C
  <1>5. Order(got, [C EXCEPT ![0] = @ \o e], dead, lost, n + k)
    <2>1. \A l \in Links : Ascending(got[l])  BY <1>4 DEF Order
    <2> HIDE DEF n
    <2> QED  BY <1>0, <1>2, <1>3, <1>4, <2>1, OrderGrows
  <1>6. CarriedNow' = [C EXCEPT ![0] = @ \o e]
    <2>1. (got[0] \o tcp.q) \o e = got[0] \o (tcp.q \o e)
      <3>1. got[0] \in Seq(Nat)  BY <1>3, <1>4
      <3> QED  BY <1>2, <1>3, <3>1, Assoc, Zenon
    <2>2. CarriedNow'[0] = C[0] \o e
      <3>1. tcp'.q = tcp.q \o e  BY DEF e
      <3> QED  BY <1>1, <1>3, <2>1, <3>1, CarriedNext
    <2>3. \A p \in Pairs : CarriedNow'[p] = C[p]  BY <1>1, <1>3, CarriedNext
    <2>4. CarriedNow' = [l \in Links |-> CarriedNow'[l]]  BY CarriedNext DEF CarriedNow
    <2> QED  BY <1>3, <2>2, <2>3, <2>4 DEF Links
  <1>7. Order(got', CarriedNow', dead', lost', Reported')  BY <1>1, <1>5, <1>6
  <1> QED  BY <1>1, <1>7 DEF LinkInv

\* ICE-TCP takes all the octets left, and lets some out.
LEMMA FramesInOrder ==
  ASSUME LinkInv, tcp \in Tcps, wr.len \in Nat, wr.len < Count, Reported = wr.len,
         comp[1].sel \in Pairs, FramesSent(Octets(wr.len)), tcp' = tcp, Reported' = Count
  PROVE  LinkInv'
  <1> DEFINE e == Octets(wr.len)
             n == wr.len
             C == CarriedNow
             p == comp[1].sel
             L == Len(e)
  <1>0. /\ n \in Nat /\ Count \in Nat /\ n <= Count
        /\ Count - n \in Nat /\ n + (Count - n) = Count
    <2>1. Count \in Nat  BY SendAssumption
    <2> QED  BY <2>1
  <1>1. PICK m \in 0 .. L :
          /\ m > 0 => sq[p] = <<>> /\ p \notin dead
          /\ got' = [got EXCEPT ![p] = @ \o SubSeq(e, 1, m)]
          /\ sq' = [sq EXCEPT ![p] = @ \o SubSeq(e, m + 1, L)]
    BY Zenon DEF FramesSent
  <1>2. dead' = dead /\ lost' = lost  BY DEF FramesSent
  <1>3. e \in Seq(Nat) /\ L = Count - n /\ Ascending(e) /\ Range(e) = n + 1 .. Count
    <2>1. e \in Seq(Nat) /\ L = Count - n  BY OctetsIs
    <2>2. Count - n \in 0 .. Count - n  BY <1>0
    <2>3. Ascending(SubSeq(e, 1, Count - n)) /\ Range(SubSeq(e, 1, Count - n)) = n + 1 .. n + (Count - n)
      BY <1>0, <2>2, OctetsFollow, Zenon
    <2>4. SubSeq(e, 1, Count - n) = e  BY <2>1, SubSeqFull
    <2> QED  BY <1>0, <2>1, <2>3, <2>4
  <1> DEFINE a == SubSeq(e, 1, m)
             b == SubSeq(e, m + 1, L)
  <1>4. /\ a \in Seq(Nat) /\ b \in Seq(Nat) /\ a \o b = e /\ Len(a) = m  BY <1>3, Parts
  <1>5. /\ C \in [Links -> Seq(Nat)] /\ p \in Links /\ p # 0
        /\ C[0] = got[0] \o tcp.q /\ \A x \in Pairs : C[x] = got[x] \o sq[x]
    BY CarriedIs
  <1>6. /\ got \in [Links -> Seq(Nat)] /\ sq \in [Pairs -> Seq(Nat)] /\ dead \subseteq Pairs
        /\ Order(got, C, dead, lost, n)
    BY DEF LinkInv
  <1>7. got[p] \in Seq(Nat) /\ sq[p] \in Seq(Nat)  BY <1>5, <1>6
  <1>8. m = 0 => a = <<>>  BY <1>4, EmptySeq
  <1>9. m \in Nat  BY <1>0, <1>3
  <1> HIDE DEF e, C, p, L, a, b
  <1>10. got' = [got EXCEPT ![p] = got[p] \o a] /\ sq' = [sq EXCEPT ![p] = sq[p] \o b]
    BY <1>1 DEF a, b
  <1>11. (got[p] \o a) \o (sq[p] \o b) = (got[p] \o sq[p]) \o e
    <2>1. sq[p] = <<>> \/ a = <<>>  BY <1>1, <1>8, <1>9
    <2>2. (got[p] \o a) \o (sq[p] \o b) = (got[p] \o sq[p]) \o (a \o b)
      <3> DEFINE g == got[p]
                 q == sq[p]
      <3>2. g \in Seq(Nat) /\ q \in Seq(Nat) /\ a \in Seq(Nat) /\ b \in Seq(Nat)
            /\ (q = <<>> \/ a = <<>>)
        BY <1>4, <1>7, <2>1
      <3> HIDE DEF g, q
      <3>3. g \o <<>> = g /\ <<>> \o b = b /\ q \o <<>> = q  BY <3>2, ConcatEmptySeq
      <3>4. (g \o a) \o b = g \o (a \o b) /\ g \o (q \o b) = (g \o q) \o b
        BY <3>2, Assoc, Zenon
      <3>5. CASE q = <<>>  BY <3>3, <3>4, <3>5, Zenon DEF g, q
      <3>6. CASE a = <<>>  BY <3>3, <3>4, <3>6, Zenon DEF g, q
      <3> QED  BY <3>2, <3>5, <3>6
    <2> QED  BY <1>4, <2>2
  <1>12. p \in Pairs  BY DEF p
  <1>13. CarriedNow' = [C EXCEPT ![p] = @ \o e]
    <2>1. CarriedNow'[p] = C[p] \o e
      <3>1. got'[p] = got[p] \o a /\ sq'[p] = sq[p] \o b  BY <1>5, <1>6, <1>10, <1>12
      <3> QED  BY <1>5, <1>11, <1>12, <3>1, CarriedNext
    <2>2. \A x \in Links \ {p} : CarriedNow'[x] = C[x]
      <3> TAKE x \in Links \ {p}
      <3>1. got'[x] = got[x]  BY <1>6, <1>10
      <3>2. CASE x = 0  BY <1>5, <3>1, <3>2, CarriedNext
      <3>3. CASE x # 0
        <4>1. x \in Pairs  BY <3>3 DEF Links
        <4>2. sq'[x] = sq[x]  BY <1>6, <1>10, <4>1
        <4> QED  BY <1>5, <3>1, <4>1, <4>2, CarriedNext
      <3> QED  BY <3>2, <3>3
    <2>3. CarriedNow' = [l \in Links |-> CarriedNow'[l]]  BY CarriedNext DEF CarriedNow
    <2> QED  BY <1>5, <2>1, <2>2, <2>3
  <1>14. \A l \in Links : Ascending(got[l])  BY <1>6 DEF Order
  <1>15. \A k \in Nat : n + k = Count => Order(got, [C EXCEPT ![p] = @ \o e], dead, lost, n + k)
    <2> TAKE k \in Nat
    <2> HAVE n + k = Count
    <2>1. Range(e) = n + 1 .. n + k  BY <1>3
    <2> HIDE DEF n
    <2> QED  BY <1>0, <1>3, <1>5, <1>6, <1>14, <2>1, OrderGrows
  <1>16. Order(got, CarriedNow', dead, lost, Count)
    <2> HIDE DEF n
    <2> QED  BY <1>0, <1>13, <1>15
  <1>17. \A l \in Links : Ascending(got'[l])
    <2> TAKE l \in Links
    <2>1. CASE l # p  BY <1>6, <1>10, <1>14, <2>1
    <2>2. CASE l = p
      <3>1. got'[p] = got[p] \o a  BY <1>5, <1>6, <1>10
      <3>2. CASE m = 0
        <4>1. got'[p] = got[p]  BY <1>7, <1>8, <3>1, <3>2, ConcatEmptySeq
        <4> QED  BY <1>5, <1>14, <2>2, <4>1
      <3>3. CASE m > 0
        <4>1. Ascending(CarriedNow'[p])  BY <1>1, <1>5, <1>16, <3>3 DEF Order
        <4>2. sq'[p] = sq[p] \o b  BY <1>6, <1>10, <1>12
        <4>3. CarriedNow'[p] = (got[p] \o a) \o (sq[p] \o b)  BY <1>12, <3>1, <4>2, CarriedNext
        <4>4. got[p] \o a \in Seq(Nat) /\ sq[p] \o b \in Seq(Nat)  BY <1>4, <1>7, Joined
        <4>5. \A u, v \in Seq(Nat) : Ascending(u \o v) => Ascending(u)  BY Joined
        <4>6. Ascending(got[p] \o a)  BY <4>1, <4>3, <4>4, <4>5, Zenon
        <4> QED  BY <2>2, <3>1, <4>6
      <3> QED  BY <1>9, <3>2, <3>3
    <2> QED  BY <2>1, <2>2
  <1>18. Order(got', CarriedNow', dead, lost, Count)  BY <1>16, <1>17, OrderMoves
  <1>19. got' \in [Links -> Seq(Nat)] /\ sq' \in [Pairs -> Seq(Nat)]
    <2>1. got[p] \o a \in Seq(Nat) /\ sq[p] \o b \in Seq(Nat)  BY <1>4, <1>7, Joined
    <2> QED  BY <1>6, <1>10, <2>1
  <1> QED  BY <1>2, <1>6, <1>18, <1>19 DEF LinkInv

\* The frames before one that is cut from x octets are full, and not more than x.
LEMMA FullFrames ==
  ASSUME NEW M \in Nat \ {0}, NEW x \in Nat, x > 0, NEW k \in 0 .. (x - 1) \div M
  PROVE  k \in Nat /\ k * M \in 0 .. x
  <1> DEFINE N == (x - 1) \div M
             R == (x - 1) % M
  <1>1. N \in Int /\ R \in Int /\ 0 <= R /\ R < M /\ x - 1 = N * M + R  OBVIOUS
  <1>2. k \in 0 .. N  OBVIOUS
  <1> HIDE DEF N, R
  <1>3. N * M <= x - 1  BY <1>1
  <1>4. k \in Nat /\ k * M \in Nat /\ k * M <= N * M  BY <1>1, <1>2
  <1>5. k * M \in 0 .. x
    <2> DEFINE a == k * M
               b == N * M
    <2>1. a \in Nat /\ b \in Int /\ a <= b /\ b <= x - 1  BY <1>1, <1>3, <1>4
    <2> HIDE DEF a, b
    <2>2. a \in 0 .. x  BY <2>1
    <2> QED  BY <2>2 DEF a
  <1> QED  BY <1>4, <1>5

\* The connection breaks at a frame; those before it have left.
LEMMA FailsInOrder ==
  ASSUME LinkInv, tcp \in Tcps, wr.len \in Nat, wr.len < Count, Reported = wr.len,
         comp[1].sel \in Pairs, FramesFail(Octets(wr.len)), tcp' = tcp, Reported' = wr.len
  PROVE  LinkInv'
  <1> DEFINE e == Octets(wr.len)
             n == wr.len
             C == CarriedNow
             p == comp[1].sel
             L == Len(e)
  <1>0. n \in Nat /\ Count \in Nat /\ MaxFrame \in Nat \ {0} /\ n <= Count
    <2>1. Count \in Nat /\ MaxFrame \in Nat \ {0}  BY SendAssumption
    <2> QED  BY <2>1
  <1>1. PICK k \in 0 .. (L - 1) \div MaxFrame :
          /\ k > 0 => sq[p] = <<>> /\ p \notin dead
          /\ got' = [got EXCEPT ![p] = @ \o SubSeq(e, 1, k * MaxFrame)]
    BY Zenon DEF FramesFail
  <1>2. dead' = dead \cup {p} /\ lost' = lost /\ sq' = sq  BY DEF FramesFail
  <1>3. e \in Seq(Nat) /\ L = Count - n /\ L \in Nat /\ L > 0  BY <1>0, OctetsIs
  <1>4. k \in Nat /\ k * MaxFrame \in 0 .. L
    <2>1. MaxFrame \in Nat \ {0} /\ L \in Nat /\ L > 0  BY <1>0, <1>3, Zenon
    <2> HIDE DEF L
    <2> QED  BY <1>1, <2>1, FullFrames, Zenon
  <1> DEFINE m == k * MaxFrame
             a == SubSeq(e, 1, m)
  <1>5. k = 0 => m = 0  BY <1>0
  <1>6. m \in 0 .. L  BY <1>4
  <1> HIDE DEF m
  <1>7. a \in Seq(Nat) /\ Len(a) = m /\ Ascending(a) /\ Range(a) = n + 1 .. n + m
    <2>1. m \in 0 .. Count - n  BY <1>3, <1>6
    <2>2. Len(a) = m  BY <1>3, <1>6, Parts
    <2> QED  BY <1>0, <2>1, <2>2, OctetsFollow, Zenon
  <1>8. /\ C \in [Links -> Seq(Nat)] /\ p \in Links /\ p # 0
        /\ C[0] = got[0] \o tcp.q /\ \A x \in Pairs : C[x] = got[x] \o sq[x]
    BY CarriedIs
  <1>9. /\ got \in [Links -> Seq(Nat)] /\ sq \in [Pairs -> Seq(Nat)] /\ dead \subseteq Pairs
        /\ Order(got, C, dead, lost, n)
    BY DEF LinkInv
  <1>10. p \in Pairs /\ got[p] \in Seq(Nat) /\ sq[p] \in Seq(Nat)  BY <1>8, <1>9
  <1>11. m = 0 => a = <<>>  BY <1>7, EmptySeq
  <1>12. m \in Nat /\ n \in Nat  BY <1>0, <1>3, <1>6
  <1>13. got' = [got EXCEPT ![p] = got[p] \o a]  BY <1>1 DEF a, m
  <1> HIDE DEF e, C, p, L, a
  <1>14. got'[p] = got[p] \o a /\ \A l \in Links \ {p} : got'[l] = got[l]  BY <1>8, <1>9, <1>13
  <1>15. \A l \in Links : Ascending(got[l])  BY <1>9 DEF Order
  <1>16. Ascending(got[p] \o a)
    <2>1. CASE k = 0
      <3>1. got[p] \o a = got[p]  BY <1>5, <1>10, <1>11, <2>1, ConcatEmptySeq
      <3> QED  BY <1>8, <1>15, <3>1
    <2>2. CASE k > 0
      <3>1. sq[p] = <<>> /\ p \notin dead  BY <1>1, <2>2
      <3>2. C[p] = got[p]  BY <1>8, <1>10, <3>1, ConcatEmptySeq
      <3>3. Range(got[p]) \subseteq 1 .. n /\ Ascending(got[p])  BY <1>8, <1>9, <3>1, <3>2 DEF Order
      <3>4. \A x \in 1 .. n, y \in n + 1 .. n + m : x < y
        <4> HIDE DEF n
        <4> QED  BY <1>12
      <3>5. \A x \in Range(got[p]), y \in Range(a) : x < y  BY <1>7, <3>3, <3>4, Zenon
      <3> QED  BY <1>7, <1>10, <3>3, <3>5, Joined
    <2> QED  BY <1>4, <2>1, <2>2
  <1>17. \A l \in Links : Ascending(got'[l])  BY <1>14, <1>15, <1>16, Zenon
  <1>18. \A l \in Links \ {p} : CarriedNow'[l] = C[l]
    <2> TAKE l \in Links \ {p}
    <2>1. CASE l = 0  BY <1>8, <1>14, <2>1, CarriedNext
    <2>2. CASE l # 0
      <3>1. l \in Pairs  BY <2>2 DEF Links
      <3> QED  BY <1>2, <1>8, <1>14, <3>1, CarriedNext
    <2> QED  BY <2>1, <2>2
  <1>19. Range(C[p]) \subseteq Range(CarriedNow'[p])
    <2>1. CarriedNow'[p] = (got[p] \o a) \o sq[p]  BY <1>2, <1>10, <1>14, CarriedNext
    <2>2. Range(got[p] \o a) = Range(got[p]) \cup Range(a) /\ got[p] \o a \in Seq(Nat)
      BY <1>7, <1>10, Joined
    <2>3. Range((got[p] \o a) \o sq[p]) = Range(got[p] \o a) \cup Range(sq[p])
      BY <1>10, <2>2, Joined
    <2>4. Range(got[p] \o sq[p]) = Range(got[p]) \cup Range(sq[p])  BY <1>10, Joined
    <2>5. C[p] = got[p] \o sq[p]  BY <1>8, <1>10
    <2> QED  BY <2>1, <2>2, <2>3, <2>4, <2>5
  <1>20. Order(got', CarriedNow', dead \cup {p}, lost, n)
    <2>1. lost \subseteq lost /\ Range(C[p]) \subseteq lost \cup Range(CarriedNow'[p])
      BY <1>19, Zenon
    <2> DEFINE H == got'
               B == CarriedNow'
    <2>2. /\ Order(got, C, dead, lost, n) /\ p \in Links /\ n \in Nat
          /\ (\A l \in Links : Ascending(H[l])) /\ (\A l \in Links \ {p} : B[l] = C[l])
          /\ lost \subseteq lost /\ Range(C[p]) \subseteq lost \cup Range(B[p])
      BY <1>8, <1>9, <1>12, <1>17, <1>18, <2>1
    <2> HIDE DEF n, H, B
    <2>3. Order(H, B, dead \cup {p}, lost, n)  BY <2>2, OrderBreaks
    <2> QED  BY <2>3 DEF H, B
  <1>21. got' \in [Links -> Seq(Nat)]
    <2>1. got[p] \o a \in Seq(Nat)  BY <1>7, <1>10, Joined
    <2> QED  BY <1>9, <1>13, <2>1
  <1> QED  BY <1>2, <1>9, <1>10, <1>20, <1>21 DEF LinkInv

\* What is reported, once a result is there.
LEMMA ReportedIs ==
  ASSUME wr \in Writers
  PROVE  Reported = wr.len + (IF wr.ret <= 0 THEN 0 ELSE wr.ret) /\ Reported \in Nat
  <1>1. wr.len \in Nat /\ wr.ret \in Int /\ 0 \in Int  BY DEF Writers
  <1>2. Max({wr.ret, 0}) = IF wr.ret <= 0 THEN 0 ELSE wr.ret  BY <1>1, MaxTwo
  <1> QED  BY <1>1, <1>2 DEF Reported

\* ... after a step.
LEMMA ReportedNext ==
  ASSUME wr'.len \in Nat, wr'.ret \in Int
  PROVE  Reported' = wr'.len + (IF wr'.ret <= 0 THEN 0 ELSE wr'.ret)
  <1>1. wr'.len \in Nat /\ wr'.ret \in Int /\ 0 \in Int  OBVIOUS
  <1>2. Max({wr'.ret, 0}) = IF wr'.ret <= 0 THEN 0 ELSE wr'.ret  BY <1>1, MaxTwo
  <1>3. Reported' = wr'.len + Max({wr'.ret, 0})  BY DEF Reported
  <1> QED  BY <1>1, <1>2, <1>3

\* A send takes the octets that come next.
LEMMA SendInOrder ==
  ASSUME SendType, PairInv, FlowInv, wr.pc # "sent", ~wr.done, AgentSend(Octets(wr.len)), sc' = sc
  PROVE  FlowInv'
  <1> DEFINE data == Octets(wr.len)
             n == wr.len
  <1>0. Count \in Nat  BY SendAssumption
  <1>1. /\ tcp \in Tcps /\ wr \in Writers /\ n \in Nat /\ n < Count
        /\ Len(tcp.q) <= SendBuf /\ wr.ret \in Int
    BY DEF SendType, SendTyped, Writers
  <1>2. wr.ret <= 0 /\ Reported = n
    <2>1. wr.ret <= 0  BY DEF FlowInv
    <2> QED  BY <1>1, <2>1, ReportedIs
  <1>3. data \in Seq(Nat) /\ Len(data) = Count - n /\ data # <<>>  BY <1>1, OctetsIs
  <1>4. Whole' = Whole  BY DEF Whole, WithinBuffers, Start, Holder, FrameStart
  <1>5. sc.api = "messages" => n = 0  BY DEF FlowInv
  <1>6. Whole => LinkInv  BY DEF FlowInv
  <1>7. ASSUME NEW x \in Int, wr' = [wr EXCEPT !.pc = "sent", !.ret = x],
               sc.api = "messages" => x <= 0 \/ n + x = Count, Whole => LinkInv'
        PROVE  FlowInv'
    <2>1. wr'.pc = "sent" /\ wr'.ret = x /\ wr'.len = n /\ wr'.done = wr.done
      BY <1>1, <1>7 DEF Writers
    <2> HIDE DEF n
    <2>2. sc'.api = "messages" =>
            /\ ~wr'.done => wr'.len = 0
            /\ wr'.pc = "sent" => wr'.ret <= 0 \/ wr'.len + wr'.ret = Count
      BY <1>5, <1>7, <2>1, Zenon
    <2> QED  BY <1>4, <1>7, <2>1, <2>2, Zenon DEF FlowInv
  <1>8. ASSUME NEW x \in Int, wr' = [wr EXCEPT !.pc = "sent", !.ret = x]
        PROVE  Reported' = n + (IF x <= 0 THEN 0 ELSE x)
    <2>1. wr'.ret = x /\ wr'.len = n  BY <1>1, <1>8 DEF Writers
    <2> QED  BY <1>1, <2>1, ReportedNext
  <1>9. AgentSend(data)  BY Zenon
  <1> HIDE DEF data
  <1>10. CASE Refused
    <2>1. wr' = [wr EXCEPT !.pc = "sent", !.ret = -1] /\ UNCHANGED <<tcp, links>>
      BY <1>9, <1>10 DEF AgentSend
    <2>2. Reported' = Reported /\ -1 \in Int /\ -1 <= 0
      <3>1. -1 \in Int /\ -1 <= 0  OBVIOUS
      <3>2. Reported' = n + 0  BY <1>8, <2>1, <3>1
      <3> QED  BY <1>1, <1>2, <3>1, <3>2
    <2>3. UNCHANGED <<sq, dead, got, lost, tcp>>  BY <2>1 DEF links
    <2>4. LinkInv => LinkInv'  BY <2>2, <2>3 DEF LinkInv, CarriedNow, Carried, Order
    <2> QED  BY <1>6, <1>7, <2>1, <2>2, <2>4
  <1>11. CASE ~Refused /\ sc.mode = "ptcp"
    <2> DEFINE u == TcpTaken(data)
               x == IF u = <<>> THEN -1 ELSE Len(u)
    <2>1. /\ u \in Seq(Nat) /\ Len(u) <= Len(data)
          /\ sc.api = "messages" => u = <<>> \/ Len(u) = Len(data)
          /\ \E m \in 0 .. Len(data) : u = SubSeq(data, 1, m)
      BY <1>1, <1>3, TakenIs
    <2>2. /\ tcp'.q = tcp.q \o u /\ UNCHANGED links
          /\ wr' = [wr EXCEPT !.pc = "sent", !.ret = x]
      <3>1. tcp' = [tcp EXCEPT !.q = tcp.q \o u, !.wen = tcp'.wen] /\ UNCHANGED links
            /\ wr' = [wr EXCEPT !.pc = "sent", !.ret = x]
        BY <1>1, <1>9, <1>11 DEF AgentSend, TcpSends, Tcps
      <3> HIDE DEF u
      <3> QED  BY <1>1, <3>1 DEF Tcps
    <2>3. PICK m \in 0 .. Len(data) : u = SubSeq(data, 1, m)  BY <2>1
    <2>4. Len(u) = m /\ m \in Nat /\ (u = <<>> <=> m = 0)
      <3>1. Len(u) = m  BY <1>3, <2>3, Parts
      <3> QED  BY <1>0, <1>1, <1>3, <2>1, <3>1, EmptySeq
    <2> HIDE DEF u
    <2>5. x \in Int /\ (x <= 0 \/ x = m) /\ (sc.api = "messages" => x <= 0 \/ n + x = Count)
      <3> HIDE DEF n
      <3>1. CASE u = <<>>
        <4>1. x = -1  BY <3>1
        <4> QED  BY <4>1
      <3>2. CASE u # <<>>
        <4>1. x = m /\ m \in Nat  BY <2>4, <3>2
        <4>2. sc.api = "messages" => m = Count - n  BY <1>3, <2>1, <2>4, <3>2
        <4>3. m = Count - n => n + m = Count  BY <1>0, <1>1
        <4> HIDE DEF x
        <4> QED  BY <4>1, <4>2, <4>3
      <3> QED  BY <3>1, <3>2
    <2>6. Reported' = n + m
      <3>1. (IF x <= 0 THEN 0 ELSE x) = m  BY <2>4
      <3> HIDE DEF x
      <3> QED  BY <1>8, <2>2, <2>5, <3>1
    <2> HIDE DEF x
    <2>7. ASSUME LinkInv PROVE LinkInv'
      <3>1. m \in 0 .. Count - n  BY <1>3
      <3>2. tcp'.q = tcp.q \o SubSeq(Octets(n), 1, m)  BY <2>2, <2>3 DEF data
      <3> QED  BY <1>1, <1>2, <2>2, <2>6, <2>7, <3>1, <3>2, TcpInOrder
    <2> QED  BY <1>6, <1>7, <2>2, <2>5, <2>7
  <1>12. CASE ~Refused /\ sc.mode = "tcp"
    <2>0. comp[1].sel \in Pairs  BY <1>12 DEF PairInv, Links, Refused
    <2>1. tcp' = tcp  BY <1>9, <1>12 DEF AgentSend
    <2>2. ASSUME Whole PROVE Framed(data, Ends(data)) = data
      BY <1>1, <1>5, <2>2, FramedIs DEF PairInv, data
    <2>3. CASE FramesSent(Framed(data, Ends(data))) /\ wr' = [wr EXCEPT !.pc = "sent", !.ret = Len(data)]
      <3>1. Len(data) \in Int /\ n + Len(data) = Count /\ ~(Len(data) <= 0)  BY <1>0, <1>1, <1>3
      <3>2. Reported' = Count  BY <1>8, <2>3, <3>1
      <3>3. Whole => LinkInv'
        <4> SUFFICES ASSUME Whole PROVE LinkInv'  OBVIOUS
        <4>1. FramesSent(Octets(wr.len))  BY <2>2, <2>3 DEF data
        <4> QED  BY <1>1, <1>2, <1>6, <2>0, <2>1, <3>2, <4>1, FramesInOrder
      <3> QED  BY <1>7, <2>3, <3>1, <3>3
    <2>4. CASE FramesFail(Framed(data, Ends(data))) /\ wr' = [wr EXCEPT !.pc = "sent", !.ret = -1]
      <3>1. -1 \in Int /\ -1 <= 0  OBVIOUS
      <3>2. Reported' = n
        <4>1. Reported' = n + 0  BY <1>8, <2>4, <3>1
        <4> QED  BY <1>1, <4>1
      <3>3. Whole => LinkInv'
        <4> SUFFICES ASSUME Whole PROVE LinkInv'  OBVIOUS
        <4>1. FramesFail(Octets(wr.len))  BY <2>2, <2>4 DEF data
        <4> QED  BY <1>1, <1>2, <1>6, <2>0, <2>1, <3>2, <4>1, FailsInOrder
      <3> QED  BY <1>7, <2>4, <3>1, <3>3
    <2> QED  BY <1>9, <1>12, <2>3, <2>4, Zenon DEF AgentSend
  <1> QED  BY <1>9, <1>10, <1>11, <1>12, Zenon DEF AgentSend

\* The steps of whoever writes.
LEMMA WriterInOrder ==
  ASSUME SendType, PairInv, FlowInv, Writer
  PROVE  FlowInv'
  <1>1. sc' = sc
    BY DEF Writer, WriteStarts, WriteLoops, WriteSends, WriteSent, WriteWakes, PollWrites,
           PollSent, PollReady, kvars
  <1>2. /\ tcp \in Tcps /\ wr \in Writers /\ (wr.pc # "idle" => ~wr.done)
        /\ Count \in Nat /\ (~wr.done => wr.len < Count)
    BY SendAssumption DEF SendType, SendTyped
  <1>3. /\ wr.len \in Nat /\ wr.ret \in Int /\ (wr.pc # "sent" => wr.ret <= 0)
        /\ sc.api = "messages" =>
             /\ ~wr.done => wr.len = 0
             /\ wr.pc = "sent" => wr.ret <= 0 \/ wr.len + wr.ret = Count
    BY <1>2 DEF Writers, FlowInv
  <1>4. ASSUME UNCHANGED links, tcp'.q = tcp.q, wr.ret <= 0, wr'.len = wr.len, wr'.ret = wr.ret,
               ~wr'.done => ~wr.done
        PROVE  FlowInv'
    <2>1. Reported' = Reported  BY <1>4 DEF Reported
    <2> QED  BY <1>1, <1>3, <1>4, <2>1, FlowRests DEF links
  <1>5. CASE WriteStarts
    <2>1. wr'.len = wr.len /\ wr'.ret = wr.ret /\ ~wr.done  BY <1>2, <1>5 DEF WriteStarts, Writers
    <2> QED  BY <1>3, <1>4, <1>5, <2>1 DEF WriteStarts, Thread
  <1>6. CASE WriteLoops
    <2>1. wr'.len = wr.len /\ wr'.ret = wr.ret /\ ~wr.done
      BY <1>2, <1>6 DEF WriteLoops, WriteReturns, Writers, Thread
    <2> QED  BY <1>3, <1>4, <1>6, <2>1 DEF WriteLoops, Thread
  <1>7. CASE WriteWakes
    <2>1. wr'.len = wr.len /\ wr'.ret = wr.ret /\ ~wr.done
      BY <1>2, <1>7 DEF WriteWakes, Writers, Thread
    <2> QED  BY <1>3, <1>4, <1>7, <2>1 DEF WriteWakes, Thread
  <1>8. CASE PollReady
    <2>1. /\ wr'.len = wr.len /\ wr'.ret = wr.ret /\ wr.pc # "sent" /\ ~wr.done
          /\ UNCHANGED links
      BY <1>2, <1>8 DEF PollReady, Loop, Writers
    <2>2. tcp'.q = tcp.q  BY <1>2, <1>8 DEF PollReady, Tcps
    <2> QED  BY <1>3, <1>4, <2>1, <2>2
  <1>9. CASE WriteSends
    <2>1. wr.pc # "sent" /\ ~wr.done  BY <1>2, <1>9 DEF WriteSends, Thread
    <2> QED  BY <1>1, <1>9, <2>1, SendInOrder DEF WriteSends
  <1>10. CASE PollWrites
    <2>1. wr.pc # "sent" /\ ~wr.done  BY <1>10 DEF PollWrites, Loop
    <2>2. CASE wr' = [wr EXCEPT !.done = TRUE] /\ UNCHANGED <<tcp, links, wc>>
      <3>1. wr'.len = wr.len /\ wr'.ret = wr.ret  BY <1>2, <2>2 DEF Writers
      <3> QED  BY <1>3, <1>4, <2>1, <2>2, <3>1
    <2>3. CASE AgentSend(Octets(wr.len))  BY <1>1, <2>1, <2>3, SendInOrder
    <2> QED  BY <1>10, <2>2, <2>3 DEF PollWrites
  <1>11. ASSUME UNCHANGED links, tcp'.q = tcp.q, ~(wr.ret <= 0), wr'.len = wr.len + wr.ret,
                wr'.ret = 0,
                sc.api = "messages" /\ wr.len + wr.ret = Count => wr'.done
         PROVE  FlowInv'
    <2>1. Reported' = Reported
      <3>1. Reported = wr.len + wr.ret  BY <1>2, <1>11, ReportedIs
      <3>2. wr'.len \in Nat /\ wr'.ret \in Int /\ wr'.ret <= 0  BY <1>3, <1>11
      <3>3. Reported' = wr'.len + 0  BY <3>2, ReportedNext
      <3> QED  BY <1>3, <1>11, <3>1, <3>3
    <2>2. wr'.ret <= 0  BY <1>11
    <2>3. sc.api = "messages" => wr'.done  BY <1>3, <1>11
    <2> QED  BY <1>1, <1>11, <2>1, <2>2, <2>3, FlowRests DEF links
  <1>12. CASE WriteSent
    <2>1. UNCHANGED links /\ tcp' = tcp /\ wr.pc = "sent" /\ ~wr.done /\ sc.api # "messages"
      BY <1>2, <1>12 DEF WriteSent, Thread
    <2>2. CASE wr.ret <= 0
      <3>1. wr'.len = wr.len /\ wr'.ret = wr.ret  BY <1>2, <1>12, <2>2 DEF WriteSent, Writers
      <3> QED  BY <1>4, <2>1, <2>2, <3>1
    <2>3. CASE ~(wr.ret <= 0)
      <3> DEFINE n == wr.len + wr.ret
      <3>1. \/ wr' = [wr EXCEPT !.pc = "loop", !.len = n, !.ret = 0]
            \/ wr' = WriteReturns([wr EXCEPT !.len = n, !.ret = 0])
        BY <1>12, <2>3 DEF WriteSent
      <3> HIDE DEF n
      <3>2. wr'.len = n /\ wr'.ret = 0
        BY <1>2, <3>1, ZenonT(30), SMTT(30) DEF WriteReturns, Writers
      <3> QED  BY <1>11, <2>1, <2>3, <3>2 DEF n
    <2> QED  BY <2>2, <2>3
  <1>13. CASE PollSent
    <2>1. UNCHANGED links /\ tcp' = tcp /\ wr.pc = "sent" /\ ~wr.done
      BY <1>2, <1>13 DEF PollSent, Loop
    <2>2. CASE wr.ret <= 0
      <3>1. wr'.len = wr.len /\ wr'.ret = wr.ret  BY <1>2, <1>13, <2>2 DEF PollSent, Writers
      <3> QED  BY <1>4, <2>1, <2>2, <3>1
    <2>3. CASE ~(wr.ret <= 0)
      <3> DEFINE n == wr.len + wr.ret
                 d == n = Count
      <3>1. wr' = [wr EXCEPT !.pc = "idle", !.len = n, !.ret = 0, !.done = d]
        BY <1>13, <2>3 DEF PollSent
      <3>d. d <=> wr.len + wr.ret = Count  OBVIOUS
      <3> HIDE DEF n, d
      <3>2. wr'.len = n /\ wr'.ret = 0 /\ wr'.done = d  BY <1>2, <3>1 DEF Writers
      <3>4. wr.len + wr.ret = Count => wr'.done  BY <3>d, <3>2
      <3> QED  BY <1>11, <2>1, <2>3, <3>2, <3>4 DEF n
    <2> QED  BY <2>2, <2>3
  <1> QED  BY <1>5, <1>6, <1>7, <1>8, <1>9, <1>10, <1>12, <1>13 DEF Writer

\* The pseudo-TCP's octets leave its buffer at the head.
LEMMA AckedInOrder ==
  ASSUME LinkInv, tcp \in Tcps, Acked
  PROVE  LinkInv'
  <1> DEFINE q == tcp.q
             L == Len(q)
             C == CarriedNow
  <1>1. PICK n \in 1 .. L :
          /\ got' = [got EXCEPT ![0] = @ \o SubSeq(q, 1, n)]
          /\ \/ tcp' = [tcp EXCEPT !.q = SubSeq(q, n + 1, L), !.wen = FALSE]
             \/ tcp' = [tcp EXCEPT !.q = SubSeq(q, n + 1, L)]
    BY ZenonT(30), SMTT(30) DEF Acked
  <1>2. UNCHANGED <<sq, dead, lost, wr>>  BY DEF Acked
  <1>3. /\ C \in [Links -> Seq(Nat)] /\ q \in Seq(Nat) /\ 0 \in Links /\ 0 \notin Pairs
        /\ C[0] = got[0] \o q /\ \A x \in Pairs : C[x] = got[x] \o sq[x]
    BY CarriedIs
  <1>4. /\ got \in [Links -> Seq(Nat)] /\ sq \in [Pairs -> Seq(Nat)] /\ dead \subseteq Pairs
        /\ Order(got, C, dead, lost, Reported)
    BY DEF LinkInv
  <1> DEFINE a == SubSeq(q, 1, n)
             b == SubSeq(q, n + 1, L)
  <1>5. tcp'.q = b  BY <1>1 DEF Tcps
  <1>6. n \in 0 .. L
    <2>1. L \in Nat  BY <1>3, LenProperties
    <2> HIDE DEF L
    <2> QED  BY <2>1
  <1>7. a \in Seq(Nat) /\ b \in Seq(Nat) /\ a \o b = q  BY <1>3, <1>6, Parts
  <1> HIDE DEF q, C, L, a, b
  <1>8. got' = [got EXCEPT ![0] = got[0] \o a]  BY <1>1 DEF a
  <1>9. got[0] \in Seq(Nat)  BY <1>3, <1>4
  <1>10. got[0] \o a \in Seq(Nat) /\ (got[0] \o a) \o b = got[0] \o q
    <2>1. got[0] \o a \in Seq(Nat)  BY <1>7, <1>9, Joined
    <2>2. (got[0] \o a) \o b = got[0] \o (a \o b)  BY <1>7, <1>9, Assoc, Zenon
    <2> QED  BY <1>7, <2>1, <2>2
  <1>11. got'[0] = got[0] \o a /\ \A l \in Links \ {0} : got'[l] = got[l]  BY <1>3, <1>4, <1>8
  <1>12. CarriedNow' = C
    <2>1. CarriedNow'[0] = C[0]  BY <1>3, <1>5, <1>10, <1>11, CarriedNext
    <2>2. \A p \in Pairs : CarriedNow'[p] = C[p]
      <3> TAKE p \in Pairs
      <3>1. got'[p] = got[p]  BY <1>3, <1>11 DEF Links
      <3> QED  BY <1>2, <1>3, <3>1, CarriedNext
    <2>3. CarriedNow' = [l \in Links |-> CarriedNow'[l]]  BY CarriedNext DEF CarriedNow
    <2> QED  BY <1>3, <2>1, <2>2, <2>3 DEF Links
  <1>13. \A l \in Links : Ascending(got'[l])
    <2>1. 0 \in Links \ dead  BY <1>3, <1>4
    <2>2. Ascending(C[0])  BY <1>4, <2>1 DEF Order
    <2>3. \A u, v \in Seq(Nat) : Ascending(u \o v) => Ascending(u)  BY Joined
    <2>4. Ascending((got[0] \o a) \o b)  BY <1>3, <1>10, <2>2
    <2>5. Ascending(got[0] \o a)  BY <1>7, <1>10, <2>3, <2>4, Zenon
    <2>6. \A l \in Links : Ascending(got[l])  BY <1>4 DEF Order
    <2> QED  BY <1>11, <2>5, <2>6, Zenon
  <1>14. Reported' = Reported  BY <1>2 DEF Reported
  <1>15. Order(got', CarriedNow', dead', lost', Reported')
    BY <1>2, <1>4, <1>12, <1>13, <1>14, OrderMoves
  <1>16. got' \in [Links -> Seq(Nat)]  BY <1>4, <1>8, <1>10
  <1> QED  BY <1>2, <1>4, <1>15, <1>16 DEF LinkInv

\* The kernel takes octets from the head of a queue.
LEMMA FlushedInOrder ==
  ASSUME LinkInv, tcp \in Tcps, NEW p \in Pairs, Flushed(p)
  PROVE  LinkInv'
  <1> DEFINE q == sq[p]
             L == Len(q)
             C == CarriedNow
  <1>1. PICK n \in 1 .. L :
          /\ sq' = [sq EXCEPT ![p] = SubSeq(q, n + 1, L)]
          /\ got' = [got EXCEPT ![p] = @ \o SubSeq(q, 1, n)]
    BY ZenonT(30), SMTT(30) DEF Flushed
  <1>2. UNCHANGED <<tcp, dead, lost, wr>> /\ p \notin dead  BY DEF Flushed
  <1>3. /\ C \in [Links -> Seq(Nat)] /\ 0 \in Links /\ 0 \notin Pairs /\ p \in Links
        /\ C[0] = got[0] \o tcp.q /\ \A x \in Pairs : C[x] = got[x] \o sq[x]
    BY CarriedIs
  <1>4. /\ got \in [Links -> Seq(Nat)] /\ sq \in [Pairs -> Seq(Nat)] /\ dead \subseteq Pairs
        /\ Order(got, C, dead, lost, Reported)
    BY DEF LinkInv
  <1> DEFINE a == SubSeq(q, 1, n)
             b == SubSeq(q, n + 1, L)
  <1>5. q \in Seq(Nat)  BY <1>4
  <1>6. n \in 0 .. L
    <2>1. L \in Nat  BY <1>5, LenProperties
    <2> HIDE DEF L
    <2> QED  BY <2>1
  <1>7. a \in Seq(Nat) /\ b \in Seq(Nat) /\ a \o b = q
    <2> HIDE DEF q
    <2> QED  BY <1>5, <1>6, Parts
  <1> HIDE DEF C, L, a, b
  <1>8. got' = [got EXCEPT ![p] = got[p] \o a] /\ sq' = [sq EXCEPT ![p] = b]  BY <1>1 DEF a, b
  <1>9. got[p] \in Seq(Nat)  BY <1>3, <1>4
  <1>10. got[p] \o a \in Seq(Nat) /\ (got[p] \o a) \o b = got[p] \o sq[p]
    <2>1. got[p] \o a \in Seq(Nat)  BY <1>7, <1>9, Joined
    <2>2. (got[p] \o a) \o b = got[p] \o (a \o b)  BY <1>7, <1>9, Assoc, Zenon
    <2> QED  BY <1>7, <2>1, <2>2
  <1>11. /\ got'[p] = got[p] \o a /\ \A l \in Links \ {p} : got'[l] = got[l]
         /\ sq'[p] = b /\ \A x \in Pairs \ {p} : sq'[x] = sq[x]
    BY <1>3, <1>4, <1>8
  <1>12. CarriedNow' = C
    <2>1. CarriedNow'[p] = C[p]  BY <1>3, <1>10, <1>11, CarriedNext
    <2>2. \A x \in Pairs \ {p} : CarriedNow'[x] = C[x]
      <3> TAKE x \in Pairs \ {p}
      <3>1. got'[x] = got[x]  BY <1>11 DEF Links
      <3> QED  BY <1>3, <1>11, <3>1, CarriedNext
    <2>3. CarriedNow'[0] = C[0]  BY <1>2, <1>3, <1>11, CarriedNext
    <2>4. CarriedNow' = [l \in Links |-> CarriedNow'[l]]  BY CarriedNext DEF CarriedNow
    <2> QED  BY <1>3, <2>1, <2>2, <2>3, <2>4 DEF Links
  <1>13. \A l \in Links : Ascending(got'[l])
    <2>1. p \in Links \ dead  BY <1>2, <1>3
    <2>2. Ascending(C[p])  BY <1>4, <2>1 DEF Order
    <2>3. \A u, v \in Seq(Nat) : Ascending(u \o v) => Ascending(u)  BY Joined
    <2>4. Ascending((got[p] \o a) \o b)  BY <1>3, <1>10, <2>2
    <2>5. Ascending(got[p] \o a)  BY <1>7, <1>10, <2>3, <2>4, Zenon
    <2>6. \A l \in Links : Ascending(got[l])  BY <1>4 DEF Order
    <2> QED  BY <1>11, <2>5, <2>6, Zenon
  <1>14. Reported' = Reported  BY <1>2 DEF Reported
  <1>15. Order(got', CarriedNow', dead', lost', Reported')
    BY <1>2, <1>4, <1>12, <1>13, <1>14, OrderMoves
  <1>16. got' \in [Links -> Seq(Nat)] /\ sq' \in [Pairs -> Seq(Nat)]
    BY <1>4, <1>7, <1>8, <1>10
  <1> QED  BY <1>2, <1>4, <1>15, <1>16 DEF LinkInv

\* A broken connection throws its queue away.
LEMMA DroppedInOrder ==
  ASSUME LinkInv, tcp \in Tcps, wr \in Writers, NEW p \in Pairs, Dropped(p)
  PROVE  LinkInv'
  <1> DEFINE C == CarriedNow
             H == got'
             B == CarriedNow'
             n == Reported
  <1>1. /\ sq' = [sq EXCEPT ![p] = <<>>] /\ dead' = dead \cup {p}
        /\ lost' = lost \cup Range(sq[p]) /\ UNCHANGED <<tcp, got, wr>>
    BY DEF Dropped
  <1>2. /\ C \in [Links -> Seq(Nat)] /\ p \in Links /\ 0 \notin Pairs
        /\ C[0] = got[0] \o tcp.q /\ \A x \in Pairs : C[x] = got[x] \o sq[x]
    BY CarriedIs
  <1>3. /\ got \in [Links -> Seq(Nat)] /\ sq \in [Pairs -> Seq(Nat)] /\ dead \subseteq Pairs
        /\ Order(got, C, dead, lost, n)
    BY DEF LinkInv
  <1>4. sq'[p] = <<>> /\ \A x \in Pairs \ {p} : sq'[x] = sq[x]  BY <1>1, <1>3
  <1>5. got[p] \in Seq(Nat) /\ sq[p] \in Seq(Nat)  BY <1>2, <1>3
  <1>6. n \in Nat /\ Reported' = n
    <2>1. n \in Nat  BY ReportedIs
    <2>2. Reported' = Reported  BY <1>1 DEF Reported
    <2> QED  BY <2>1, <2>2
  <1> HIDE DEF C, n
  <1>7. \A l \in Links \ {p} : B[l] = C[l]
    <2> TAKE l \in Links \ {p}
    <2>1. CASE l = 0  BY <1>1, <1>2, <2>1, CarriedNext
    <2>2. CASE l # 0
      <3>1. l \in Pairs \ {p}  BY <2>2 DEF Links
      <3> QED  BY <1>1, <1>2, <1>4, <3>1, CarriedNext
    <2> QED  BY <2>1, <2>2
  <1>8. Range(C[p]) \subseteq lost' \cup Range(B[p])
    <2>0. got[p] \o <<>> = got[p]  BY <1>5, ConcatEmptySeq
    <2>1. B[p] = got[p]
      <3>1. B[p] = got'[p] \o sq'[p]  BY CarriedNext
      <3>2. got'[p] = got[p]  BY <1>1
      <3> QED  BY <1>4, <2>0, <3>1, <3>2
    <2>2. Range(got[p] \o sq[p]) = Range(got[p]) \cup Range(sq[p])  BY <1>5, Joined
    <2>3. C[p] = got[p] \o sq[p]  BY <1>2
    <2> HIDE DEF B
    <2> QED  BY <1>1, <2>1, <2>2, <2>3
  <1>9. (\A l \in Links : Ascending(H[l])) /\ lost \subseteq lost'
    BY <1>1, <1>3 DEF Order
  <1> HIDE DEF H, B
  <1> DEFINE lp == lost'
  <1>10. lost \subseteq lp /\ Range(C[p]) \subseteq lp \cup Range(B[p])  BY <1>8, <1>9
  <1> HIDE DEF lp
  <1>11. Order(H, B, dead \cup {p}, lp, n)
    BY <1>2, <1>3, <1>6, <1>7, <1>9, <1>10, OrderBreaks
  <1>12. Order(got', CarriedNow', dead', lost', Reported')
    BY <1>1, <1>6, <1>11, Zenon DEF H, B, lp
  <1>13. sq' \in [Pairs -> Seq(Nat)]
    <2>1. <<>> \in Seq(Nat)  BY EmptySeq
    <2> QED  BY <1>1, <1>3, <2>1
  <1> QED  BY <1>1, <1>3, <1>12, <1>13 DEF LinkInv

\* The steps of the connections.
LEMMA TransportInOrder ==
  ASSUME SendType, FlowInv, Transport
  PROVE  FlowInv'
  <1>1. sc' = sc
    BY ZenonT(30), SMTT(30) DEF Transport, Opened, Acked, Flushed, Dropped, Emit, kvars
  <1>2. tcp \in Tcps /\ wr \in Writers  BY DEF SendType, SendTyped
  <1>3. /\ wr.pc # "sent" => wr.ret <= 0
        /\ sc.api = "messages" =>
             /\ ~wr.done => wr.len = 0
             /\ wr.pc = "sent" => wr.ret <= 0 \/ wr.len + wr.ret = Count
    BY DEF FlowInv
  <1>4. Whole' = Whole  BY <1>1 DEF Whole, WithinBuffers, Start, Holder, FrameStart
  <1>5. ASSUME wr' = wr, LinkInv => LinkInv' PROVE FlowInv'
    BY <1>1, <1>3, <1>4, <1>5, Zenon DEF FlowInv
  <1>6. CASE Opened
    <2>1. tcp'.q = tcp.q /\ UNCHANGED <<links, wr>>  BY <1>2, <1>6 DEF Opened, Tcps
    <2>2. Reported' = Reported  BY <2>1 DEF Reported
    <2> QED  BY <1>1, <1>3, <2>1, <2>2, FlowRests DEF links
  <1>7. CASE Acked
    <2>1. wr' = wr  BY <1>7 DEF Acked
    <2> QED  BY <1>2, <1>5, <1>7, <2>1, AckedInOrder
  <1>8. ASSUME NEW p \in Pairs, Flushed(p) PROVE FlowInv'
    <2>1. wr' = wr  BY <1>8 DEF Flushed
    <2> QED  BY <1>2, <1>5, <1>8, <2>1, FlushedInOrder
  <1>9. ASSUME NEW p \in Pairs, Dropped(p) PROVE FlowInv'
    <2>1. wr' = wr  BY <1>9 DEF Dropped
    <2> QED  BY <1>2, <1>5, <1>9, <2>1, DroppedInOrder
  <1>10. CASE Emit
    <2>1. UNCHANGED <<tcp, links>>  BY <1>10 DEF Emit
    <2>2. wr'.pc = wr.pc /\ wr'.len = wr.len /\ wr'.ret = wr.ret /\ wr'.done = wr.done
      BY <1>2, <1>10 DEF Emit, EmitWritable, EmitRemoved, Writers
    <2>3. Reported' = Reported  BY <2>2 DEF Reported
    <2> QED  BY <1>1, <1>3, <2>1, <2>2, <2>3, FlowRests DEF links
  <1> QED  BY <1>6, <1>7, <1>8, <1>9, <1>10 DEF Transport

\* Every step keeps the order.
LEMMA OrderStays ==
  SendType /\ PairInv /\ FlowInv /\ [Next]_vars => PairInv' /\ FlowInv'
  <1> SUFFICES ASSUME SendType, PairInv, FlowInv, [Next]_vars PROVE FlowInv'
    BY PairStays
  <1>1. tcp \in Tcps /\ wr \in Writers  BY DEF SendType, SendTyped
  <1>2. ASSUME UNCHANGED links, tcp'.q = tcp.q, sc' = sc, wr'.pc = wr.pc, wr'.len = wr.len,
               wr'.ret = wr.ret, wr'.done = wr.done
        PROVE  FlowInv'
    <2>1. Reported' = Reported  BY <1>2 DEF Reported
    <2>2. /\ wr'.pc # "sent" => wr'.ret <= 0
          /\ sc.api = "messages" =>
               /\ ~wr'.done => wr'.len = 0
               /\ wr'.pc = "sent" => wr'.ret <= 0 \/ wr'.len + wr'.ret = Count
      BY <1>2 DEF FlowInv
    <2> QED  BY <1>2, <2>1, <2>2, FlowRests DEF links
  <1>3. CASE Stunning /\ UNCHANGED svars
    <2>1. sc' = sc  BY <1>3, StunningFades DEF SendType
    <2> QED  BY <1>2, <1>3, <2>1 DEF svars
  <1>4. CASE Selects
    <2>1. sc' = sc  BY <1>4, SelectsTell DEF SendType
    <2> QED  BY <1>2, <1>4, <2>1 DEF Selects
  <1>5. CASE RemoveStream  BY <1>2, <1>5 DEF RemoveStream
  <1>6. CASE CancelWrite
    <2>1. wr'.pc = wr.pc /\ wr'.len = wr.len /\ wr'.ret = wr.ret /\ wr'.done = wr.done
      BY <1>1, <1>6 DEF CancelWrite, Writers
    <2> QED  BY <1>2, <1>6, <2>1 DEF CancelWrite
  <1>7. CASE CloseStream
    <2>1. tcp'.q = tcp.q  BY <1>1, <1>7 DEF CloseStream, Tcps
    <2> QED  BY <1>2, <1>7, <2>1 DEF CloseStream
  <1>8. CASE Failed
    <2>1. tcp'.q = tcp.q  BY <1>1, <1>8 DEF Failed, Tcps
    <2>2. wr'.pc = wr.pc /\ wr'.len = wr.len /\ wr'.ret = wr.ret /\ wr'.done = wr.done
      BY <1>1, <1>8 DEF Failed, Writers
    <2> QED  BY <1>2, <1>8, <2>1, <2>2 DEF Failed
  <1>9. CASE Writer  BY <1>9, WriterInOrder
  <1>10. CASE Transport  BY <1>10, TransportInOrder
  <1>11. CASE UNCHANGED vars  BY <1>2, <1>11 DEF vars, kvars, svars
  <1> QED  BY <1>3, <1>4, <1>5, <1>6, <1>7, <1>8, <1>9, <1>10, <1>11 DEF Next

\* What is written leaves in order and once (the property WriteInOrder): over the
\* pseudo-TCP and over the ICE-TCP socket of every pair that is selected in turn,
\* whichever sends fail after some frames, whichever connections break with octets
\* in their queues, for every size of the write, the buffers and the frames.
THEOREM WrittenInOrder == Spec => []WriteInOrder
  <1>1. Init => PairInv /\ FlowInv
    <2> SUFFICES ASSUME Init PROVE PairInv /\ FlowInv  OBVIOUS
    <2>1. /\ got = [l \in Links |-> <<>>] /\ sq = [p \in Pairs |-> <<>>] /\ tcp.q = <<>>
          /\ wr.pc = "idle" /\ wr.len = 0 /\ wr.ret = 0 /\ dead = {} /\ sc \in Settings
          /\ todo = sc.todo
      BY DEF Init, Links
    <2>2. PairInv
      <3>1. comp[1].sel = 0  BY First DEF Init, NewComponent
      <3> QED  BY <2>1, <3>1, SendAssumption DEF PairInv, Links
    <2>3. <<>> \in Seq(Nat) /\ <<>> \o <<>> = <<>> /\ Range(<<>>) = {} /\ Ascending(<<>>)
      <3>1. <<>> \in Seq(Nat) /\ Len(<<>>) = 0  BY EmptySeq
      <3>2. Range(<<>>) = {}  BY DEF Range
      <3>3. Ascending(<<>>)  BY <3>1 DEF Ascending
      <3> QED  BY <3>1, <3>2, <3>3, ConcatEmptySeq
    <2>4. \A l \in Links : CarriedNow[l] = <<>>
      BY <2>1, <2>3 DEF CarriedNow, Carried, Links
    <2>5. Reported = 0
      <3>1. wr \in Writers  BY InitSent DEF SendType, SendTyped
      <3> QED  BY <2>1, <3>1, ReportedIs
    <2>6. \A l \in Links : got[l] = <<>>  BY <2>1
    <2>7. Order(got, CarriedNow, dead, lost, Reported)
      <3>1. 1 .. 0 = {}  OBVIOUS
      <3> QED  BY <2>3, <2>4, <2>5, <2>6, <3>1 DEF Order
    <2>8. LinkInv  BY <2>1, <2>3, <2>7 DEF LinkInv
    <2> QED  BY <2>1, <2>2, <2>8 DEF FlowInv
  <1>2. FlowInv => WriteInOrder
    <2> SUFFICES ASSUME FlowInv, Whole PROVE WriteInOrder  BY DEF WriteInOrder, Whole
    <2>1. Order(got, CarriedNow, dead, lost, Reported)  BY DEF FlowInv, LinkInv
    <2>2. \A l \in Links : CarriedNow[l] = Carried(l)  BY DEF CarriedNow
    <2>3. \A l \in Links : Ascending(got[l])  BY <2>1 DEF Order
    <2>4. ASSUME NEW l \in Links \ dead
          PROVE  /\ Ascending(Carried(l)) /\ Range(Carried(l)) \subseteq 1 .. Reported
                 /\ \A k \in Links \ (dead \cup {l}) : Range(Carried(k)) \cap Range(Carried(l)) = {}
      <3>1. CarriedNow[l] = Carried(l)  BY <2>2
      <3>2. Ascending(CarriedNow[l]) /\ Range(CarriedNow[l]) \subseteq 1 .. Reported
        BY <2>1, Zenon DEF Order
      <3>3. ASSUME NEW k \in Links \ (dead \cup {l})
            PROVE  Range(Carried(k)) \cap Range(Carried(l)) = {}
        <4>1. CarriedNow[k] = Carried(k)  BY <2>2
        <4>2. Range(CarriedNow[k]) \cap Range(CarriedNow[l]) = {}  BY <2>1, Zenon DEF Order
        <4> QED  BY <3>1, <4>1, <4>2, Zenon
      <3> QED  BY <3>1, <3>2, <3>3, Zenon
    <2>5. {Range(CarriedNow[l]) : l \in Links} = {Range(Carried(l)) : l \in Links}
      BY <2>2, Zenon
    <2>6. 1 .. Reported \subseteq lost \cup UNION {Range(Carried(l)) : l \in Links}
      BY <2>1, <2>5, Zenon DEF Order
    <2> QED  BY <2>3, <2>4, <2>6, Zenon DEF WriteInOrder, Links
  <1> QED  BY <1>1, <1>2, InitSent, WakeStays, OrderStays, PTL DEF Spec
=============================================================================
