------------------------- MODULE SecureLink_proofs -------------------------
(***************************************************************************)
(* Proofs about SecureLink, for every set of stations, keys, frame lengths,*)
(* faults and number of requests.                                          *)
(***************************************************************************)
EXTENDS SecureLink, SequenceTheorems, TLAPS

\* A frame is at least a block long (ctr_state_next_outgoing, num_blocks).
LEMMA BlocksType == \A b \in Blocks : b \in Nat /\ b > 0
<1>1. Blocks \subseteq Nat \ {0}
  BY Zenon, SecureLinkAssumption
<1>. QED
  BY <1>1

\* What a frame is made of (secure_frame_t and how it was made).
LEMMA FrameFields ==
  ASSUME NEW f \in Frame
  PROVE  /\ f.addr \in Slaves /\ f.dir \in Dirs /\ f.pos \in Nat /\ f.req \in Nat
         /\ f.blocks \in Blocks /\ f.blocks \in Nat /\ f.blocks > 0
         /\ f.wire \in {"intact", "short", "altered"}
         /\ f # NoFrame
<1>1. f.wire # NoFrame.wire
  BY DEF Frame, NoFrame
<1>2. /\ f.addr \in Slaves /\ f.dir \in Dirs /\ f.pos \in Nat /\ f.req \in Nat
      /\ f.blocks \in Blocks
      /\ f.wire \in {"intact", "short", "altered"}
  BY DEF Frame
<1>3. f.blocks \in Nat /\ f.blocks > 0
  BY <1>2, BlocksType
<1>4. f # NoFrame
  BY <1>1
<1>. QED
  BY <1>2, <1>3, <1>4

\* The two directions differ.
LEMMA DirFacts == M2S \in Dirs /\ S2M \in Dirs /\ M2S # S2M
BY DEF M2S, S2M, Dirs

\* A table of counters, and what an advance of one of them does to it.
Counters == [Slaves -> [Dirs -> Nat]]

\* Reserving blocks moves one counter and no other (ctr_state_next_outgoing).
LEMMA Advanced ==
  ASSUME NEW c \in Counters, NEW a \in Slaves, NEW d \in Dirs, NEW b \in Nat
  PROVE  LET next == [c EXCEPT ![a][d] = @ + b]
         IN /\ next \in Counters
            /\ next[a][d] = c[a][d] + b
            /\ \A x \in Slaves, e \in Dirs : <<x, e>> # <<a, d>> => next[x][e] = c[x][e]
BY DEF Counters

\* The same for the counters of the stations.
LEMMA AdvancedAt ==
  ASSUME NEW c \in [Slaves -> Counters], NEW s \in Slaves, NEW a \in Slaves,
         NEW d \in Dirs, NEW b \in Nat
  PROVE  LET next == [c EXCEPT ![s][a][d] = @ + b]
         IN /\ next \in [Slaves -> Counters]
            /\ next[s][a][d] = c[s][a][d] + b
            /\ \A r, x \in Slaves, e \in Dirs :
                 <<r, x, e>> # <<s, a, d>> => next[r][x][e] = c[r][x][e]
<1>. DEFINE row  == [c[s] EXCEPT ![a][d] = @ + b]
            next == [c EXCEPT ![s][a][d] = @ + b]
<1>1. c[s] \in Counters
  OBVIOUS
<1>2. /\ row \in Counters
      /\ row[a][d] = c[s][a][d] + b
      /\ \A x \in Slaves, e \in Dirs : <<x, e>> # <<a, d>> => row[x][e] = c[s][x][e]
  BY <1>1, Advanced
<1>3. next = [c EXCEPT ![s] = row]
  OBVIOUS
<1>. HIDE DEF row
<1>4. next \in [Slaves -> Counters]
  BY <1>2, <1>3
<1>5. next[s] = row /\ \A r \in Slaves : r # s => next[r] = c[r]
  BY <1>3
<1>. HIDE DEF next
<1>6. \A r, x \in Slaves, e \in Dirs :
        <<r, x, e>> # <<s, a, d>> => next[r][x][e] = c[r][x][e]
  <2>1. TAKE r, x \in Slaves, e \in Dirs
  <2>2. CASE r = s
    BY <1>2, <1>5, <2>2
  <2>3. CASE r # s
    BY <1>5, <2>3
  <2>. QED
    BY <2>2, <2>3
<1>. QED
  BY <1>2, <1>4, <1>5, <1>6 DEF next

\* What is heard on top of an unread frame is a frame again (serial_port_read).
LEMMA JoinedType ==
  ASSUME NEW unread \in Frame \cup {NoFrame}, NEW f \in Frame
  PROVE  /\ Joined(unread, f) \in Frame
         /\ Joined(unread, f).wire = "altered" \/ Joined(unread, f) = f
BY DEF Joined, Frame, NoFrame

\* A station's buffer after something was sent: as before, or with it joined.
LEMMA HearBuffers ==
  ASSUME NEW from, NEW f, Hear(from, f)
  PROVE  /\ rx' = [s \in Slaves |-> rx'[s]]
         /\ \A s \in Slaves : rx'[s] = rx[s] \/ rx'[s] = Joined(rx[s], f)
BY DEF Hear

\* What is heard leaves the buffers typed (serial_port_write).
LEMMA HearType ==
  ASSUME TypeOK, NEW from, NEW f \in Frame, Hear(from, f)
  PROVE  rx' \in [Slaves -> Frame \cup {NoFrame}]
<1>1. \A s \in Slaves : rx'[s] \in Frame \cup {NoFrame}
  <2>1. TAKE s \in Slaves
  <2>2. rx[s] \in Frame \cup {NoFrame}
    BY DEF TypeOK
  <2>3. Joined(rx[s], f) \in Frame
    BY <2>2, JoinedType
  <2>4. rx'[s] = rx[s] \/ rx'[s] = Joined(rx[s], f)
    BY <2>1, HearBuffers
  <2>. QED
    BY <2>2, <2>3, <2>4
<1>2. rx' = [s \in Slaves |-> rx'[s]]
  BY HearBuffers
<1>. QED
  BY <1>1, <1>2

-----------------------------------------------------------------------------

\* A link no request was sent over has typed state.
LEMMA TypeOKInit == Init => TypeOK
BY EmptySeq DEF Init, TypeOK, Frame

\* A master's step keeps the types.
LEMMA TypeOKMaster ==
  ASSUME TypeOK,
         \/ \E a \in Slaves, b \in Blocks : Build(a, b)
         \/ MasterStep \/ SendFails
  PROVE  TypeOK'
<1>. USE DEF TypeOK
<1>1. ASSUME NEW a \in Slaves, NEW b \in Blocks, Build(a, b)
      PROVE  TypeOK'
  <2>1. b \in Nat /\ b > 0
    BY BlocksType
  <2>2. mframe' \in Frame
    BY <1>1, <2>1, DirFacts DEF Build, Frame
  <2>3. mctr' \in [Slaves -> [Dirs -> Nat]]
    BY <1>1, <2>1, DirFacts DEF Build
  <2>4. sent' \in [Slaves -> Nat]
    BY <1>1 DEF Build
  <2>5. mframe' # NoFrame
    BY <2>2, FrameFields
  <2>. QED
    BY <1>1, <2>2, <2>3, <2>4, <2>5 DEF Build, slaves
<1>2. CASE Send
  <2>1. mframe \in Frame
    BY <1>2 DEF Send
  <2>2. rx' \in [Slaves -> Frame \cup {NoFrame}]
    BY <1>2, <2>1, HearType DEF Send
  <2>. QED
    BY <1>2, <2>1, <2>2 DEF Send, history
<1>3. CASE MasterTimesOut \/ RejectReply \/ SendFails
  BY <1>3 DEF MasterTimesOut, RejectReply, SendFails, EndExchange, slaves, history
<1>4. CASE TakeReply
  <2>1. mrx \in Frame /\ mframe \in Frame
    BY <1>4 DEF TakeReply
  <2>2. mctr' \in Counters
    <3>1. mctr' = [mctr EXCEPT ![mrx.addr][S2M] = @ + mrx.blocks]
      BY <1>4 DEF TakeReply
    <3>2. mctr \in Counters
      BY DEF Counters
    <3>. QED
      BY <2>1, <3>1, <3>2, DirFacts, FrameFields, Advanced
  <2>3. confirmed' \subseteq [addr : Slaves, req : Nat, rep : Nat]
    <3>1. [addr |-> mrx.addr, req |-> mframe.req, rep |-> mrx.req]
            \in [addr : Slaves, req : Nat, rep : Nat]
      BY <2>1, FrameFields
    <3>2. \/ confirmed' = confirmed
          \/ confirmed' = confirmed \cup
               {[addr |-> mrx.addr, req |-> mframe.req, rep |-> mrx.req]}
      BY <1>4 DEF TakeReply
    <3>. QED
      BY <3>1, <3>2
  <2>. QED
    BY <1>4, <2>2, <2>3 DEF TakeReply, EndExchange, slaves, Counters
<1>. QED
  BY <1>1, <1>2, <1>3, <1>4 DEF MasterStep

\* A station's step keeps the types.
LEMMA TypeOKSlave ==
  ASSUME TypeOK, NEW s \in Slaves, SlaveOpens(s) \/ SlaveStep(s) \/ SlaveStops(s)
  PROVE  TypeOK'
<1>. USE DEF TypeOK
<1>1. CASE SlaveOpens(s) \/ SlaveStops(s)
  BY <1>1 DEF SlaveOpens, SlaveStops, master, history
<1>2. CASE SlaveReads(s)
  BY <1>2 DEF SlaveReads, master, history
<1>3. CASE SlaveRejects(s)
  BY <1>3 DEF SlaveRejects, Dropped, Done, master, history
<1>4. CASE SlaveMisdecrypts(s)
  <2>1. sframe[s] \in Frame
    BY <1>4 DEF SlaveMisdecrypts
  <2>2. sctr' \in [Slaves -> [Slaves -> [Dirs -> Nat]]]
    <3>. DEFINE a == sframe[s].addr
                n == sframe[s].blocks
    <3>1. sctr' = [sctr EXCEPT ![s][a][M2S] = @ + n]
      BY <1>4 DEF SlaveMisdecrypts
    <3>2. sctr \in [Slaves -> Counters]
      BY DEF Counters
    <3>3. a \in Slaves /\ n \in Nat
      BY <2>1, FrameFields
    <3>. HIDE DEF a, n, TypeOK
    <3>4. sctr' \in [Slaves -> Counters]
      BY <3>1, <3>2, <3>3, DirFacts, AdvancedAt
    <3>. QED
      BY <3>4 DEF Counters
  <2>. QED
    BY <1>4, <2>2 DEF SlaveMisdecrypts, Dropped, Done, master, history
<1>5. CASE SlaveDecrypts(s)
  <2>1. sframe[s] \in Frame
    BY <1>5 DEF SlaveDecrypts
  <2>2. sctr' \in [Slaves -> [Slaves -> [Dirs -> Nat]]]
    <3>. DEFINE a == sframe[s].addr
                n == sframe[s].blocks
    <3>1. sctr' = [sctr EXCEPT ![s][a][M2S] = @ + n]
      BY <1>5 DEF SlaveDecrypts
    <3>2. sctr \in [Slaves -> Counters]
      BY DEF Counters
    <3>3. a \in Slaves /\ n \in Nat
      BY <2>1, FrameFields
    <3>. HIDE DEF a, n, TypeOK
    <3>4. sctr' \in [Slaves -> Counters]
      BY <3>1, <3>2, <3>3, DirFacts, AdvancedAt
    <3>. QED
      BY <3>4 DEF Counters
  <2>3. taken' \in [Slaves -> [Slaves -> Seq(Nat)]]
    BY SMTT(30), <1>5, <2>1, FrameFields, AppendProperties DEF SlaveDecrypts
  <2>. QED
    BY <1>5, <2>2, <2>3 DEF SlaveDecrypts, master
<1>6. CASE SlaveExecutes(s)
  <2>1. sframe[s] \in Frame
    BY <1>6 DEF SlaveExecutes, ToExecute
  <2>2. applied' \in [Slaves -> [Slaves -> Seq(Nat)]]
    BY <1>6, <2>1, FrameFields, AppendProperties DEF SlaveExecutes
  <2>. QED
    BY <1>6, <2>2 DEF SlaveExecutes, ToExecute, master
<1>7. ASSUME NEW b \in Blocks, SlaveBuildsReply(s, b)
      PROVE  TypeOK'
  <2>1. sframe[s] \in Frame /\ b \in Nat
    BY <1>7, BlocksType DEF SlaveBuildsReply, ToReply
  <2>2. sctr' \in [Slaves -> [Slaves -> [Dirs -> Nat]]]
    <3>1. sctr' = [sctr EXCEPT ![s][sframe[s].addr][S2M] = @ + b]
      BY <1>7 DEF SlaveBuildsReply
    <3>2. sctr \in [Slaves -> Counters]
      BY DEF Counters
    <3>. HIDE DEF TypeOK
    <3>3. sctr' \in [Slaves -> Counters]
      BY <2>1, <3>1, <3>2, DirFacts, FrameFields, AdvancedAt, ZenonT(40)
    <3>. QED
      BY <3>3 DEF Counters
  <2>3. sframe'[s] \in Frame
    <3>1. sframe'[s] = [sframe[s] EXCEPT !.dir = S2M, !.blocks = b,
                                         !.pos = sctr[s][sframe[s].addr][S2M]]
      BY <1>7 DEF SlaveBuildsReply
    <3>2. sctr[s][sframe[s].addr][S2M] \in Nat
      <4>1. sctr[s] \in [Slaves -> [Dirs -> Nat]]
        OBVIOUS
      <4>2. sframe[s].addr \in Slaves
        BY <2>1, FrameFields
      <4>. QED
        BY <4>1, <4>2, DirFacts
    <3>. HIDE DEF TypeOK
    <3>. QED
      BY <2>1, <3>1, <3>2, DirFacts DEF Frame
  <2>4. sframe' \in [Slaves -> Frame \cup {NoFrame}] /\ \A x \in Slaves : x # s => sframe'[x] = sframe[x]
    BY <1>7, <2>3 DEF SlaveBuildsReply
  <2>. QED
    BY <1>7, <2>2, <2>3, <2>4, FrameFields DEF SlaveBuildsReply, ToReply, master, history
<1>8. CASE SlaveCannotReply(s)
  BY <1>8 DEF SlaveCannotReply, ToReply, Done, master, history
<1>9. CASE SlaveReplies(s)
  <2>1. sframe[s] \in Frame
    BY <1>9 DEF SlaveReplies
  <2>2. rx' \in [Slaves -> Frame \cup {NoFrame}]
    BY <1>9, <2>1, HearType DEF SlaveReplies
  <2>3. mrx' \in Frame \cup {NoFrame}
    BY <1>9, <2>1, JoinedType DEF SlaveReplies
  <2>. QED
    BY <1>9, <2>2, <2>3 DEF SlaveReplies, Done, history
<1>. QED
  BY <1>1, <1>2, <1>3, <1>4, <1>5, <1>6, <1>7, <1>8, <1>9 DEF SlaveStep

\* What the line does to frames keeps the types.
LEMMA TypeOKLine ==
  ASSUME TypeOK, Damage \/ Noise
  PROVE  TypeOK'
<1>. USE DEF TypeOK
<1>1. CASE Damage
  <2>1. \A f \in Frame : \A w \in {"short", "altered"} : [f EXCEPT !.wire = w] \in Frame
    BY DEF Frame
  <2>2. NoFrame.wire # "intact"
    BY DEF NoFrame
  <2>3. PICK w \in {"short", "altered"} :
          \/ /\ \E s \in Slaves : rx[s].wire = "intact" /\ rx' = [rx EXCEPT ![s].wire = w]
             /\ UNCHANGED mrx
          \/ /\ mrx.wire = "intact" /\ mrx' = [mrx EXCEPT !.wire = w]
             /\ UNCHANGED rx
    BY <1>1 DEF Damage
  <2>4. rx' \in [Slaves -> Frame \cup {NoFrame}] /\ mrx' \in Frame \cup {NoFrame}
    <3>1. ASSUME NEW s \in Slaves, rx[s].wire = "intact", rx' = [rx EXCEPT ![s].wire = w]
          PROVE  rx' \in [Slaves -> Frame \cup {NoFrame}]
      <4>1. rx[s] \in Frame
        BY <2>2, <3>1
      <4>2. [rx[s] EXCEPT !.wire = w] \in Frame
        BY <2>1, <4>1
      <4>3. rx' = [rx EXCEPT ![s] = [rx[s] EXCEPT !.wire = w]]
        BY <3>1
      <4>. QED
        BY <4>2, <4>3
    <3>2. ASSUME mrx.wire = "intact", mrx' = [mrx EXCEPT !.wire = w]
          PROVE  mrx' \in Frame
      BY <2>1, <2>2, <3>2
    <3>. QED
      BY <2>3, <3>1, <3>2
  <2>. QED
    BY <1>1, <2>4 DEF Damage, history
<1>2. CASE Noise
  <2>1. PICK a \in Slaves, b \in Blocks :
          LET f == [addr |-> a, dir |-> M2S, pos |-> 0, blocks |-> b, req |-> 0,
                    wire |-> "short"]
          IN \/ mrx' = Joined(mrx, f) /\ UNCHANGED rx
             \/ (\E s \in Slaves : rx' = [rx EXCEPT ![s] = Joined(@, f)]) /\ UNCHANGED mrx
    BY <1>2 DEF Noise
  <2>. DEFINE f == [addr |-> a, dir |-> M2S, pos |-> 0, blocks |-> b, req |-> 0,
                    wire |-> "short"]
  <2>2. f \in Frame
    BY DirFacts DEF Frame
  <2>3. rx' \in [Slaves -> Frame \cup {NoFrame}] /\ mrx' \in Frame \cup {NoFrame}
    <3>1. \A u \in Frame \cup {NoFrame} : Joined(u, f) \in Frame
      BY <2>2, JoinedType
    <3>. HIDE DEF f
    <3>2. CASE mrx' = Joined(mrx, f) /\ UNCHANGED rx
      BY <3>1, <3>2
    <3>3. ASSUME NEW s \in Slaves, rx' = [rx EXCEPT ![s] = Joined(@, f)], UNCHANGED mrx
          PROVE  rx' \in [Slaves -> Frame \cup {NoFrame}] /\ mrx' \in Frame \cup {NoFrame}
      BY <3>1, <3>3
    <3>. QED
      BY <2>1, <3>2, <3>3 DEF f
  <2>. QED
    BY <1>2, <2>3 DEF Noise, history
<1>. QED
  BY <1>1, <1>2

\* Every step keeps the types.
LEMMA TypeOKStep == TypeOK /\ [Next]_vars => TypeOK'
<1>. SUFFICES ASSUME TypeOK, [Next]_vars
              PROVE  TypeOK'
  OBVIOUS
<1>1. CASE UNCHANGED vars
  BY <1>1 DEF TypeOK, vars, master, slaves, history
<1>. QED
  BY <1>1, TypeOKMaster, TypeOKSlave, TypeOKLine DEF Next

\* Buffers, counters and histories keep their types, and a station has a frame
\* in hand exactly while it works on one, for every set of stations and every
\* fault (secure_send_demo.c, secure_recv_demo.c).
THEOREM TypeCorrect == Spec => []TypeOK
BY TypeOKInit, TypeOKStep, PTL DEF Spec

-----------------------------------------------------------------------------

\* A frame on its way to a station is one of three, and is a request.
LEMMA OnTheWayFacts ==
  ASSUME TypeOK, NEW s \in Slaves
  PROVE  /\ \A f : f \in Unverified(s) <=> f = sframe[s] /\ spc[s] = "got" /\ Request(f)
         /\ \A f : f \in Unread(s) <=> f = rx[s] /\ Request(f)
         /\ \A f : f \in Built <=> f = mframe /\ mpc = "built"
         /\ OnTheWay(s) = Unverified(s) \cup Unread(s) \cup Built
         /\ \A f \in OnTheWay(s) : f \in Frame
<1>1. /\ \A f : f \in Unverified(s) <=> f = sframe[s] /\ spc[s] = "got" /\ Request(f)
      /\ \A f : f \in Unread(s) <=> f = rx[s] /\ Request(f)
      /\ \A f : f \in Built <=> f = mframe /\ mpc = "built"
      /\ OnTheWay(s) = Unverified(s) \cup Unread(s) \cup Built
  BY DEF Unverified, Unread, Built, OnTheWay
<1>2. /\ sframe[s] \in Frame \cup {NoFrame} /\ rx[s] \in Frame \cup {NoFrame}
      /\ mpc = "built" => mframe \in Frame
      /\ ~Request(NoFrame)
  BY DEF TypeOK, Request
<1>. QED
  BY <1>1, <1>2

\* The three parts of the invariant that speak of counters and frames.
LinkInv == GaplessInv /\ BehindInv /\ OrderInv

\* A step that moves no request counter and puts no new request on its way
\* keeps them, if it keeps the frames in order.
LEMMA CalmStep ==
  ASSUME TypeOK, TypeOK', LinkInv,
         UNCHANGED <<sent, taken>>,
         \A a \in Slaves : mctr'[a][M2S] = mctr[a][M2S],
         \A s, a \in Slaves : sctr'[s][a][M2S] = sctr[s][a][M2S],
         \A s \in Slaves : OnTheWay(s)' \subseteq OnTheWay(s),
         \A s \in Slaves :
           /\ \A f \in Unverified(s)', g \in Unread(s)' \cup Built' : Follows(f, g)
           /\ \A f \in Unread(s)', g \in Built' : Follows(f, g)
  PROVE  LinkInv'
<1>1. \A s \in Slaves : \A f \in OnTheWay(s) : f.addr \in Slaves
  BY OnTheWayFacts, FrameFields
<1>2. GaplessInv'
  BY DEF LinkInv, GaplessInv
<1>3. BehindInv'
  BY DEF LinkInv, BehindInv
<1>4. OrderInv'
  BY <1>1 DEF LinkInv, OrderInv, Follows
<1>. QED
  BY <1>2, <1>3, <1>4 DEF LinkInv

\* The common case: frames only leave the places they are in.
LEMMA FewerFrames ==
  ASSUME TypeOK, TypeOK', LinkInv,
         UNCHANGED <<sent, taken>>,
         \A a \in Slaves : mctr'[a][M2S] = mctr[a][M2S],
         \A s, a \in Slaves : sctr'[s][a][M2S] = sctr[s][a][M2S],
         \A s \in Slaves : /\ Unverified(s)' \subseteq Unverified(s)
                           /\ Unread(s)' \subseteq Unread(s),
         Built' \subseteq Built
  PROVE  LinkInv'
<1>1. \A s \in Slaves : OnTheWay(s)' \subseteq OnTheWay(s)
  BY DEF OnTheWay
<1>2. \A s \in Slaves :
        /\ \A f \in Unverified(s), g \in Unread(s) \cup Built : Follows(f, g)
        /\ \A f \in Unread(s), g \in Built : Follows(f, g)
  BY DEF LinkInv, OrderInv
<1>. QED
  BY <1>1, <1>2, CalmStep

\* A new request starts where the master's counter stands, which no station's
\* counter is ahead of, and is level with only if it has missed nothing
\* (secure_frame_encrypt_and_build).
LEMMA LinkBuild ==
  ASSUME TypeOK, TypeOK', LinkInv, NEW a \in Slaves, NEW b \in Blocks, Build(a, b)
  PROVE  LinkInv'
<1>1. /\ mframe' = [addr |-> a, dir |-> M2S, pos |-> mctr[a][M2S], blocks |-> b,
                    req |-> sent[a] + 1, wire |-> "intact"]
      /\ mctr' = [mctr EXCEPT ![a][M2S] = @ + b]
      /\ sent' = [sent EXCEPT ![a] = @ + 1]
      /\ mpc = "idle" /\ mpc' = "built"
      /\ UNCHANGED <<spc, sframe, sctr, rx, taken>>
  BY DEF Build, slaves
<1>2. /\ mctr \in Counters /\ sctr \in [Slaves -> Counters]
      /\ sent \in [Slaves -> Nat]
      /\ b \in Nat /\ b > 0
  BY BlocksType DEF TypeOK, Counters
<1>3. /\ mctr'[a][M2S] = mctr[a][M2S] + b /\ mctr[a][M2S] \in Nat
      /\ \A x \in Slaves : x # a => mctr'[x][M2S] = mctr[x][M2S]
      /\ sent'[a] = sent[a] + 1 /\ sent[a] \in Nat
      /\ \A x \in Slaves : x # a => sent'[x] = sent[x]
  BY <1>1, <1>2, DirFacts DEF Counters
<1>4. \A s \in Slaves : /\ Unverified(s)' = Unverified(s)
                        /\ Unread(s)' = Unread(s)
                        /\ OnTheWay(s) = Unverified(s) \cup Unread(s)
                        /\ OnTheWay(s)' = OnTheWay(s) \cup {mframe'}
  BY <1>1 DEF Unverified, Unread, Built, OnTheWay
<1>5. Built' = {mframe'}
  BY <1>1 DEF Built
<1>6. /\ mframe'.addr = a /\ mframe'.pos = mctr[a][M2S] /\ mframe'.blocks = b
      /\ mframe'.req = sent[a] + 1
  BY <1>1
<1>7. \A s \in Slaves : \A f \in OnTheWay(s) :
        /\ f.addr \in Slaves /\ f.pos + f.blocks \in Nat /\ f.req \in Nat
        /\ Behind(f.pos + f.blocks, f.req, mctr[f.addr][M2S], sent[f.addr] + 1)
        /\ f.req <= sent[f.addr]
  BY OnTheWayFacts, FrameFields DEF LinkInv, OrderInv
<1>8. \A s, x \in Slaves : /\ sctr[s][x][M2S] \in Nat
                           /\ Behind(sctr[s][x][M2S], Len(taken[s][x]), mctr[x][M2S], sent[x] + 1)
  BY <1>2, DirFacts DEF LinkInv, BehindInv, Counters
<1>. HIDE DEF Build
<1>9. GaplessInv'
  BY <1>1 DEF LinkInv, GaplessInv
<1>10. BehindInv'
  <2>1. SUFFICES ASSUME NEW s \in Slaves, NEW x \in Slaves
                 PROVE  /\ Behind(sctr[s][x][M2S], Len(taken[s][x]), mctr'[x][M2S], sent'[x] + 1)
                        /\ \A f \in OnTheWay(s)' : f.addr = x =>
                             Behind(sctr[s][x][M2S], Len(taken[s][x]), f.pos, f.req)
    BY <1>1 DEF BehindInv
  <2>2. Behind(sctr[s][x][M2S], Len(taken[s][x]), mctr'[x][M2S], sent'[x] + 1)
    BY <1>2, <1>3, <1>8, SMTT(30) DEF Behind
  <2>3. \A f \in OnTheWay(s) : f.addr = x =>
          Behind(sctr[s][x][M2S], Len(taken[s][x]), f.pos, f.req)
    BY DEF LinkInv, BehindInv
  <2>4. a = x => Behind(sctr[s][x][M2S], Len(taken[s][x]), mframe'.pos, mframe'.req)
    BY <1>6, <1>8
  <2>. QED
    BY <1>4, <1>6, <2>2, <2>3, <2>4
<1>11. OrderInv'
  <2>1. ASSUME NEW s \in Slaves, NEW f \in OnTheWay(s)'
        PROVE  /\ Behind(f.pos + f.blocks, f.req, mctr'[f.addr][M2S], sent'[f.addr] + 1)
               /\ f.req <= sent'[f.addr]
    <3>1. CASE f = mframe'
      BY <1>2, <1>3, <1>6, <3>1 DEF Behind
    <3>2. CASE f \in OnTheWay(s) /\ f.addr = a
      BY <1>2, <1>3, <1>7, <3>2 DEF Behind
    <3>3. CASE f \in OnTheWay(s) /\ f.addr # a
      BY <1>3, <1>7, <3>3
    <3>. QED
      BY <1>4, <2>1, <3>1, <3>2, <3>3
  <2>2. ASSUME NEW s \in Slaves, NEW f \in OnTheWay(s), NEW g \in Built'
        PROVE  Follows(f, g)
    BY <1>5, <1>6, <1>7, <2>2 DEF Follows
  <2>3. \A s \in Slaves : \A f \in Unverified(s), g \in Unread(s) : Follows(f, g)
    BY DEF LinkInv, OrderInv
  <2>. QED
    BY <1>4, <2>1, <2>2, <2>3 DEF OrderInv
<1>. QED
  BY <1>9, <1>10, <1>11 DEF LinkInv

\* A station that verifies a request moves its counter past it. Level with the
\* request before, it has now taken it and is level with the next; behind it,
\* it stays behind whatever comes later (secure_frame_verify_and_decrypt).
LEMMA LinkVerify ==
  ASSUME TypeOK, TypeOK', LinkInv, NEW s \in Slaves,
         SlaveMisdecrypts(s) \/ SlaveDecrypts(s)
  PROVE  LinkInv'
<1>. DEFINE f == sframe[s]
            a == f.addr
            n == f.blocks
<1>1. /\ spc[s] = "got" /\ f \in Frame /\ f.wire = "intact" /\ f.dir = M2S
      /\ sctr' = [sctr EXCEPT ![s][a][M2S] = @ + n]
      /\ UNCHANGED <<master, sent>>
      /\ rx' = rx \/ rx' = [rx EXCEPT ![s] = NoFrame]
      /\ spc'[s] # "got" /\ \A x \in Slaves : x # s => spc'[x] = spc[x] /\ sframe'[x] = sframe[x]
  BY SMTT(30) DEF SlaveMisdecrypts, SlaveDecrypts, SlaveAdmits, Authentic, Dropped, Done,
         history, TypeOK
<1>2. \/ f.pos # sctr[s][a][M2S] /\ taken' = taken
      \/ /\ f.pos = sctr[s][a][M2S]
         /\ taken' = [taken EXCEPT ![s][a] = Append(@, f.req)]
  BY DEF SlaveMisdecrypts, SlaveDecrypts, Decrypts, Dropped, history
<1>3. f \in Unverified(s) /\ f \in OnTheWay(s)
  BY <1>1, FrameFields DEF Unverified, OnTheWay, Request
<1>4. /\ Unverified(s)' = {}
      /\ Unread(s)' \subseteq Unread(s)
      /\ Built' = Built
      /\ \A x \in Slaves : x # s => Unverified(x)' = Unverified(x) /\ Unread(x)' = Unread(x)
  <2>1. rx'[s] = rx[s] \/ rx'[s] = NoFrame
    BY <1>1 DEF TypeOK
  <2>2. \A x \in Slaves : x # s => rx'[x] = rx[x]
    BY <1>1, ZenonT(40) DEF TypeOK
  <2>. QED
    BY <1>1, <2>1, <2>2 DEF Unverified, Unread, Built, master, Request
<1>5. a \in Slaves /\ n \in Nat /\ n > 0 /\ f.pos \in Nat /\ f.req \in Nat
  BY <1>1, FrameFields
<1>6. /\ mctr \in Counters /\ sctr \in [Slaves -> Counters]
      /\ taken \in [Slaves -> [Slaves -> Seq(Nat)]]
  BY DEF TypeOK, Counters
<1>7. /\ Behind(sctr[s][a][M2S], Len(taken[s][a]), f.pos, f.req)
      /\ Behind(f.pos + n, f.req, mctr[a][M2S], sent[a] + 1)
      /\ \A g \in Unread(s) \cup Built : Follows(f, g)
  BY <1>3, <1>5 DEF LinkInv, BehindInv, OrderInv
<1>8. \A x \in Slaves : /\ OnTheWay(x)' \subseteq OnTheWay(x)
                        /\ x = s => OnTheWay(x)' \subseteq Unread(s) \cup Built
  BY <1>4 DEF OnTheWay
<1>. HIDE DEF f, a, n
<1>9. /\ sctr'[s][a][M2S] = sctr[s][a][M2S] + n
      /\ \A x, y \in Slaves : <<x, y>> # <<s, a>> => sctr'[x][y][M2S] = sctr[x][y][M2S]
      /\ sctr[s][a][M2S] \in Nat /\ mctr[a][M2S] \in Nat
  <2>1. /\ sctr'[s][a][M2S] = sctr[s][a][M2S] + n
        /\ \A x, y \in Slaves, e \in Dirs :
             <<x, y, e>> # <<s, a, M2S>> => sctr'[x][y][e] = sctr[x][y][e]
    <3>. DEFINE next == [sctr EXCEPT ![s][a][M2S] = @ + n]
    <3>1. /\ next[s][a][M2S] = sctr[s][a][M2S] + n
          /\ \A x, y \in Slaves, e \in Dirs :
               <<x, y, e>> # <<s, a, M2S>> => next[x][y][e] = sctr[x][y][e]
      <4>1. /\ sctr \in [Slaves -> Counters] /\ s \in Slaves /\ a \in Slaves
            /\ M2S \in Dirs /\ n \in Nat
        BY <1>5, <1>6, DirFacts
      <4>2. next[s][a][M2S] = sctr[s][a][M2S] + n
        <5>1. next = [sctr EXCEPT ![s] = [sctr[s] EXCEPT ![a] =
                       [sctr[s][a] EXCEPT ![M2S] = sctr[s][a][M2S] + n]]]
          OBVIOUS
        <5>2. /\ s \in DOMAIN sctr /\ a \in DOMAIN sctr[s]
              /\ M2S \in DOMAIN sctr[s][a]
          BY <4>1 DEF Counters
        <5>. QED
          BY <5>1, <5>2
      <4>3. \A x, y \in Slaves, e \in Dirs :
              <<x, y, e>> # <<s, a, M2S>> => next[x][y][e] = sctr[x][y][e]
        BY ONLY <4>1, AdvancedAt
      <4>. QED
        BY <4>2, <4>3
    <3>2. sctr' = next
      BY <1>1
    <3>. HIDE DEF next
    <3>. QED
      BY <3>1, <3>2
  <2>2. \A x, y \in Slaves : <<x, y>> # <<s, a>> => sctr'[x][y][M2S] = sctr[x][y][M2S]
    BY <2>1, DirFacts
  <2>. QED
    BY <1>5, <1>6, <2>1, <2>2, DirFacts DEF Counters
<1>10. /\ Len(taken[s][a]) \in Nat
       /\ \A x, y \in Slaves : <<x, y>> # <<s, a>> => taken'[x][y] = taken[x][y]
       /\ f.pos = sctr[s][a][M2S] =>
            /\ taken'[s][a] = Append(taken[s][a], f.req)
            /\ f.req = Len(taken[s][a]) + 1
            /\ Len(taken'[s][a]) = f.req
       /\ f.pos # sctr[s][a][M2S] => taken' = taken
  <2>1. taken[s][a] \in Seq(Nat) /\ Len(taken[s][a]) \in Nat
    BY <1>5, <1>6, LenProperties
  <2>2. \A x, y \in Slaves : <<x, y>> # <<s, a>> => taken'[x][y] = taken[x][y]
    <3>1. TAKE x, y \in Slaves
    <3>2. CASE taken' = taken
      BY <3>2
    <3>3. CASE taken' = [taken EXCEPT ![s][a] = Append(@, f.req)]
      BY <1>5, <1>6, <3>3
    <3>. QED
      BY <1>2, <3>2, <3>3
  <2>3. ASSUME f.pos = sctr[s][a][M2S]
        PROVE  /\ taken'[s][a] = Append(taken[s][a], f.req)
               /\ f.req = Len(taken[s][a]) + 1
    BY <1>2, <1>5, <1>6, <1>7, <2>3 DEF Behind
  <2>4. Len(Append(taken[s][a], f.req)) = Len(taken[s][a]) + 1
    BY <1>5, <2>1, AppendProperties
  <2>. QED
    BY <1>2, <2>1, <2>2, <2>3, <2>4
<1>11. ASSUME NEW p \in Nat, NEW r, Behind(f.pos + n, f.req, p, r)
       PROVE  Behind(sctr'[s][a][M2S], Len(taken'[s][a]), p, r)
  BY <1>5, <1>7, <1>9, <1>10, <1>11, SMTT(30) DEF Behind
<1>12. GaplessInv'
  <2>1. SUFFICES ASSUME NEW x \in Slaves, NEW y \in Slaves, NEW i \in DOMAIN taken'[x][y]
                 PROVE  taken'[x][y][i] = i
    BY DEF GaplessInv
  <2>2. \A j \in DOMAIN taken[x][y] : taken[x][y][j] = j
    BY DEF LinkInv, GaplessInv
  <2>3. CASE taken'[x][y] = taken[x][y]
    BY <2>1, <2>2, <2>3
  <2>4. CASE /\ x = s /\ y = a
             /\ taken'[s][a] = Append(taken[s][a], f.req)
             /\ f.req = Len(taken[s][a]) + 1
    <3>1. taken[s][a] \in Seq(Nat)
      BY <1>5, <1>6
    <3>2. /\ i \in 1 .. Len(taken[s][a]) + 1
          /\ taken'[s][a][i] = IF i = Len(taken[s][a]) + 1 THEN f.req ELSE taken[s][a][i]
      BY <1>5, <2>1, <2>4, <3>1, AppendProperties, LenProperties
    <3>3. DOMAIN taken[s][a] = 1 .. Len(taken[s][a])
      BY <3>1, LenProperties
    <3>. QED
      BY <1>10, <2>2, <2>4, <3>2, <3>3
  <2>. QED
    BY <1>10, <2>3, <2>4
<1>13. BehindInv'
  <2>1. SUFFICES ASSUME NEW x \in Slaves, NEW y \in Slaves
                 PROVE  /\ Behind(sctr'[x][y][M2S], Len(taken'[x][y]), mctr[y][M2S], sent[y] + 1)
                        /\ \A g \in OnTheWay(x)' : g.addr = y =>
                             Behind(sctr'[x][y][M2S], Len(taken'[x][y]), g.pos, g.req)
    BY <1>1 DEF BehindInv, master
  <2>2. CASE <<x, y>> # <<s, a>>
    <3>1. /\ sctr'[x][y][M2S] = sctr[x][y][M2S] /\ taken'[x][y] = taken[x][y]
          /\ OnTheWay(x)' \subseteq OnTheWay(x)
      BY <1>8, <1>9, <1>10, <2>2
    <3>. QED
      BY <3>1 DEF LinkInv, BehindInv
  <2>3. CASE x = s /\ y = a
    <3>1. Behind(sctr'[x][y][M2S], Len(taken'[x][y]), mctr[y][M2S], sent[y] + 1)
      BY <1>7, <1>9, <1>11, <2>3
    <3>2. ASSUME NEW g \in OnTheWay(s)', g.addr = a
          PROVE  Behind(sctr'[s][a][M2S], Len(taken'[s][a]), g.pos, g.req)
      <4>1. g \in Unread(s) \cup Built /\ g \in OnTheWay(s)
        BY <1>8, <3>2
      <4>2. g.pos \in Nat
        BY <4>1, OnTheWayFacts, FrameFields
      <4>3. Behind(f.pos + n, f.req, g.pos, g.req)
        BY <1>7, <3>2, <4>1 DEF Follows, a, n
      <4>. QED
        BY <1>11, <4>2, <4>3
    <3>. QED
      BY <2>3, <3>1, <3>2
  <2>. QED
    BY <2>2, <2>3
<1>14. OrderInv'
  <2>1. \A x \in Slaves : \A g \in OnTheWay(x)' :
          /\ Behind(g.pos + g.blocks, g.req, mctr[g.addr][M2S], sent[g.addr] + 1)
          /\ g.req <= sent[g.addr]
    BY <1>8 DEF LinkInv, OrderInv
  <2>2. \A x \in Slaves :
          /\ \A g \in Unverified(x)', h \in Unread(x)' \cup Built' : Follows(g, h)
          /\ \A g \in Unread(x)', h \in Built' : Follows(g, h)
    BY <1>4 DEF LinkInv, OrderInv
  <2>. QED
    BY <1>1, <2>1, <2>2 DEF OrderInv, master
<1>. QED
  BY <1>12, <1>13, <1>14 DEF LinkInv

\* Before the first request all counters stand at their seed.
LEMMA LinkInit == Init => LinkInv /\ MadeInv
<1>. SUFFICES ASSUME Init PROVE LinkInv /\ MadeInv
  OBVIOUS
<1>1. TypeOK
  BY TypeOKInit
<1>2. \A s \in Slaves : OnTheWay(s) = {} /\ Unverified(s) = {} /\ Unread(s) = {}
  BY DEF Init, OnTheWay, Unverified, Unread, Built, Request
<1>3. Built = {} /\ MadeInv
  BY DEF Init, Built, MadeInv
<1>4. GaplessInv
  BY DEF Init, GaplessInv
<1>5. BehindInv
  <2>1. ASSUME NEW s \in Slaves, NEW a \in Slaves
        PROVE  /\ sctr[s][a][M2S] = 0 /\ mctr[a][M2S] = 0
               /\ taken[s][a] = <<>> /\ sent[a] = 0
    BY DirFacts DEF Init
  <2>2. Len(<<>>) = 0
    BY EmptySeq
  <2>3. Behind(0, 0, 0, 0 + 1)
    BY DEF Behind
  <2>. QED
    BY <1>2, <2>1, <2>2, <2>3 DEF BehindInv
<1>6. OrderInv
  BY <1>2, <1>3 DEF OrderInv
<1>. QED
  BY <1>3, <1>4, <1>5, <1>6 DEF LinkInv

\* The master's steps after it has built a request: the frame goes out, what
\* comes in moves at most the counter of replies.
LEMMA LinkMaster ==
  ASSUME TypeOK, TypeOK', LinkInv, MasterStep \/ SendFails
  PROVE  LinkInv'
<1>1. CASE Send
  <2>1. /\ mpc = "built" /\ mpc' = "waiting" /\ Hear({}, mframe)
        /\ UNCHANGED <<mframe, mctr, spc, sframe, sctr, history>>
    BY <1>1 DEF Send
  <2>2. mframe \in Frame
    BY <2>1 DEF TypeOK
  <2>3. Built = {mframe} /\ Built' = {}
    BY <2>1 DEF Built
  <2>4. ASSUME NEW s \in Slaves
        PROVE  Unverified(s)' = Unverified(s) /\ Unread(s)' \subseteq Unread(s) \cup Built
    <3>1. rx'[s] = rx[s] \/ rx'[s] = Joined(rx[s], mframe)
      BY <2>1, HearBuffers
    <3>2. Joined(rx[s], mframe).wire = "altered" \/ Joined(rx[s], mframe) = mframe
      BY <2>2, JoinedType DEF TypeOK
    <3>. QED
      BY <2>1, <2>3, <3>1, <3>2 DEF Unverified, Unread, Request
  <2>5. \A s \in Slaves :
          /\ \A f \in Unverified(s), g \in Unread(s) \cup Built : Follows(f, g)
          /\ \A f \in Unread(s), g \in Built : Follows(f, g)
    BY DEF LinkInv, OrderInv
  <2>6. \A s \in Slaves : OnTheWay(s)' \subseteq OnTheWay(s)
    BY <2>3, <2>4 DEF OnTheWay
  <2>. QED
    BY <2>1, <2>3, <2>4, <2>5, <2>6, CalmStep DEF history
<1>2. CASE MasterTimesOut \/ RejectReply \/ SendFails
  <2>1. /\ mpc' = "idle"
        /\ UNCHANGED <<mctr, spc, sframe, sctr, rx, sent, taken>>
    BY <1>2 DEF MasterTimesOut, RejectReply, SendFails, EndExchange, slaves, history
  <2>. QED
    BY <2>1, FewerFrames DEF Unverified, Unread, Built
<1>3. CASE TakeReply
  <2>1. /\ mpc' = "idle" /\ mrx \in Frame
        /\ UNCHANGED <<spc, sframe, sctr, rx, sent, taken>>
        /\ mctr' = [mctr EXCEPT ![mrx.addr][S2M] = @ + mrx.blocks]
    BY <1>3 DEF TakeReply, EndExchange, slaves, TypeOK
  <2>2. \A a \in Slaves : mctr'[a][M2S] = mctr[a][M2S]
    BY <2>1, DirFacts, ZenonT(40) DEF TypeOK
  <2>. QED
    BY <2>1, <2>2, FewerFrames DEF Unverified, Unread, Built
<1>. QED
  BY <1>1, <1>2, <1>3 DEF MasterStep

\* A station's steps other than a verification: no request counter moves, and
\* what it sends is no request.
LEMMA LinkSlave ==
  ASSUME TypeOK, TypeOK', LinkInv, MadeInv, NEW s \in Slaves,
         \/ SlaveOpens(s) \/ SlaveStops(s)
         \/ SlaveReads(s) \/ SlaveRejects(s) \/ SlaveExecutes(s)
         \/ SlaveCannotReply(s) \/ SlaveReplies(s)
         \/ \E b \in Blocks : SlaveBuildsReply(s, b)
  PROVE  LinkInv'
<1>1. CASE SlaveReads(s)
  <2>1. /\ UNCHANGED <<master, sctr, sent, taken>>
        /\ spc[s] = "listening"
        /\ sframe' = [sframe EXCEPT ![s] = rx[s]]
        /\ rx' = [rx EXCEPT ![s] = NoFrame]
        /\ spc' = [spc EXCEPT ![s] = "got"]
    BY <1>1 DEF SlaveReads, history
  <2>2. /\ Unverified(s)' = Unread(s) /\ Unread(s)' = {} /\ Built' = Built
        /\ \A x \in Slaves : x # s => Unverified(x)' = Unverified(x) /\ Unread(x)' = Unread(x)
    BY <2>1 DEF Unverified, Unread, Built, master, TypeOK, Request
  <2>3. \A x \in Slaves :
          /\ \A f \in Unverified(x), g \in Unread(x) \cup Built : Follows(f, g)
          /\ \A f \in Unread(x), g \in Built : Follows(f, g)
    BY DEF LinkInv, OrderInv
  <2>4. \A x \in Slaves : OnTheWay(x)' \subseteq OnTheWay(x)
    BY <2>2 DEF OnTheWay
  <2>5. \A x \in Slaves :
          /\ \A f \in Unverified(x)', g \in Unread(x)' \cup Built' : Follows(f, g)
          /\ \A f \in Unread(x)', g \in Built' : Follows(f, g)
    BY <2>2, <2>3
  <2>. QED
    BY <2>1, <2>4, <2>5, CalmStep DEF master
<1>2. CASE SlaveOpens(s) \/ SlaveStops(s) \/ SlaveRejects(s) \/ SlaveExecutes(s) \/ SlaveCannotReply(s)
  <2>1. /\ UNCHANGED <<master, sctr, sent, taken>>
        /\ spc'[s] # "got"
        /\ \A x \in Slaves : x # s => spc'[x] = spc[x] /\ sframe'[x] = sframe[x]
        /\ rx' = rx \/ rx' = [rx EXCEPT ![s] = NoFrame]
    BY <1>2 DEF SlaveOpens, SlaveStops, SlaveRejects, SlaveExecutes, SlaveCannotReply,
                Dropped, Done, history, TypeOK
  <2>2. \A x \in Slaves : rx'[x] = rx[x] \/ rx'[x] = NoFrame
    BY <2>1 DEF TypeOK
  <2>3. \A x \in Slaves : /\ Unverified(x)' \subseteq Unverified(x)
                          /\ Unread(x)' \subseteq Unread(x)
    BY <2>1, <2>2 DEF Unverified, Unread, Request
  <2>. QED
    BY <2>1, <2>3, FewerFrames DEF Built, master
<1>3. ASSUME NEW b \in Blocks, SlaveBuildsReply(s, b)
      PROVE  LinkInv'
  <2>1. /\ UNCHANGED <<master, rx, sent, taken>>
        /\ spc' = [spc EXCEPT ![s] = "replying"]
        /\ sctr' = [sctr EXCEPT ![s][sframe[s].addr][S2M] = @ + b]
        /\ \A x \in Slaves : x # s => sframe'[x] = sframe[x]
    BY <1>3, ZenonT(40) DEF SlaveBuildsReply, history, TypeOK
  <2>2. \A x, a \in Slaves : sctr'[x][a][M2S] = sctr[x][a][M2S]
    <3>. DEFINE a == sframe[s].addr
    <3>1. sframe[s] \in Frame
      BY <1>3 DEF SlaveBuildsReply, ToReply, TypeOK
    <3>2. a \in Slaves /\ b \in Nat /\ sctr \in [Slaves -> Counters]
      BY <3>1, FrameFields, BlocksType DEF TypeOK, Counters
    <3>3. sctr' = [sctr EXCEPT ![s][a][S2M] = @ + b]
      BY <2>1
    <3>. HIDE DEF a
    <3>4. \A x, y \in Slaves, e \in Dirs :
            <<x, y, e>> # <<s, a, S2M>> => sctr'[x][y][e] = sctr[x][y][e]
      BY <3>2, <3>3, DirFacts, AdvancedAt
    <3>. QED
      BY <3>4, DirFacts
  <2>3. \A x \in Slaves : Unverified(x)' \subseteq Unverified(x) /\ Unread(x)' = Unread(x)
    BY <2>1 DEF Unverified, Unread, TypeOK
  <2>. QED
    BY <2>1, <2>2, <2>3, FewerFrames DEF Built, master
<1>4. CASE SlaveReplies(s)
  <2>1. /\ Hear({s}, sframe[s]) /\ spc[s] = "replying"
        /\ UNCHANGED <<mpc, mframe, mctr, sctr, sent, taken>>
        /\ spc'[s] # "got"
        /\ \A x \in Slaves : x # s => spc'[x] = spc[x] /\ sframe'[x] = sframe[x]
    BY <1>4 DEF SlaveReplies, Done, history, TypeOK
  <2>2. sframe[s] \in Frame /\ sframe[s].dir = S2M
    BY <2>1 DEF TypeOK, MadeInv
  <2>3. ASSUME NEW x \in Slaves
        PROVE  Unread(x)' \subseteq Unread(x)
    <3>1. rx'[x] = rx[x] \/ rx'[x] = Joined(rx[x], sframe[s])
      BY <2>1, HearBuffers
    <3>2. Joined(rx[x], sframe[s]).wire = "altered" \/ Joined(rx[x], sframe[s]) = sframe[s]
      BY <2>2, JoinedType DEF TypeOK
    <3>. QED
      BY <2>2, <3>1, <3>2, DirFacts DEF Unread, Request
  <2>4. \A x \in Slaves : Unverified(x)' \subseteq Unverified(x)
    BY <2>1 DEF Unverified
  <2>. QED
    BY <2>1, <2>3, <2>4, FewerFrames DEF Built
<1>. QED
  BY <1>1, <1>2, <1>3, <1>4

\* What the line does to a frame leaves it no frame of anybody's: it is cut,
\* changed, or joined with bytes that are none (serial_port_read).
LEMMA LineFrames ==
  ASSUME TypeOK, Damage \/ Noise
  PROVE  /\ UNCHANGED <<mpc, mframe, mctr, spc, sframe, sctr, history>>
         /\ \A x \in Slaves : rx'[x] = rx[x] \/ rx'[x].wire # "intact"
         /\ mrx' = mrx \/ mrx'.wire # "intact"
<1>0. rx \in [Slaves -> Frame \cup {NoFrame}] /\ mrx \in Frame \cup {NoFrame}
  BY DEF TypeOK
<1>1. CASE Damage
  <2>1. \A u \in Frame \cup {NoFrame}, w \in {"short", "altered"} :
          u.wire = "intact" => [u EXCEPT !.wire = w].wire # "intact"
    BY DEF Frame, NoFrame
  <2>2. PICK w \in {"short", "altered"} :
          \/ /\ mrx' = mrx
             /\ \E s \in Slaves : rx[s].wire = "intact" /\ rx' = [rx EXCEPT ![s].wire = w]
          \/ /\ rx' = rx
             /\ mrx.wire = "intact" /\ mrx' = [mrx EXCEPT !.wire = w]
    BY <1>1 DEF Damage
  <2>3. ASSUME NEW s \in Slaves, rx[s].wire = "intact", rx' = [rx EXCEPT ![s].wire = w],
               NEW x \in Slaves
        PROVE  rx'[x] = rx[x] \/ rx'[x].wire # "intact"
    <3>1. rx' = [rx EXCEPT ![s] = [rx[s] EXCEPT !.wire = w]]
      BY <2>3
    <3>2. rx'[x] = IF x = s THEN [rx[s] EXCEPT !.wire = w] ELSE rx[x]
      BY <1>0, <3>1
    <3>. QED
      BY <1>0, <2>1, <2>3, <3>2
  <2>. QED
    BY <1>0, <1>1, <2>1, <2>2, <2>3 DEF Damage
<1>2. CASE Noise
  <2>1. PICK a \in Slaves, b \in Blocks :
          LET f == [addr |-> a, dir |-> M2S, pos |-> 0, blocks |-> b, req |-> 0,
                    wire |-> "short"]
          IN \/ mrx' = Joined(mrx, f) /\ rx' = rx
             \/ (\E s \in Slaves : rx' = [rx EXCEPT ![s] = Joined(rx[s], f)]) /\ mrx' = mrx
    BY <1>2 DEF Noise
  <2>. DEFINE f == [addr |-> a, dir |-> M2S, pos |-> 0, blocks |-> b, req |-> 0,
                    wire |-> "short"]
  <2>2. f \in Frame /\ f.wire = "short"
    BY DirFacts DEF Frame
  <2>3. \/ mrx' = Joined(mrx, f) /\ rx' = rx
        \/ (\E s \in Slaves : rx' = [rx EXCEPT ![s] = Joined(rx[s], f)]) /\ mrx' = mrx
    BY <2>1
  <2>. HIDE DEF f
  <2>4. \A u \in Frame \cup {NoFrame} : Joined(u, f).wire # "intact"
    BY <2>2, JoinedType
  <2>5. ASSUME NEW s \in Slaves, rx' = [rx EXCEPT ![s] = Joined(rx[s], f)], NEW x \in Slaves
        PROVE  rx'[x] = rx[x] \/ rx'[x].wire # "intact"
    <3>1. rx'[x] = IF x = s THEN Joined(rx[s], f) ELSE rx[x]
      BY <1>0, <2>5
    <3>. QED
      BY <1>0, <2>4, <3>1
  <2>. QED
    BY <1>0, <1>2, <2>3, <2>4, <2>5 DEF Noise
<1>. QED
  BY <1>1, <1>2

\* What the line does to a frame makes no request of it.
LEMMA LinkLine ==
  ASSUME TypeOK, TypeOK', LinkInv, Damage \/ Noise
  PROVE  LinkInv'
<1>1. /\ UNCHANGED <<mpc, mframe, mctr, spc, sframe, sctr, sent, taken>>
      /\ \A x \in Slaves : rx'[x] = rx[x] \/ rx'[x].wire # "intact"
  BY LineFrames DEF history
<1>2. \A x \in Slaves : Unverified(x)' = Unverified(x) /\ Unread(x)' \subseteq Unread(x)
  BY <1>1 DEF Unverified, Unread, Request
<1>. QED
  BY <1>1, <1>2, FewerFrames DEF Built

\* Only the master makes requests, only stations make replies.
LEMMA MadeStep == TypeOK /\ MadeInv /\ [Next]_vars => MadeInv'
<1>. SUFFICES ASSUME TypeOK, MadeInv, [Next]_vars
              PROVE  MadeInv'
  OBVIOUS
<1>1. mpc' = "built" => Request(mframe')
  <2>1. ASSUME NEW a \in Slaves, NEW b \in Blocks, Build(a, b)
        PROVE  Request(mframe')
    <3>1. mframe'.wire = "intact" /\ mframe'.dir = M2S
      BY <2>1 DEF Build
    <3>. QED
      BY <3>1 DEF Request, NoFrame
  <2>2. CASE \A a \in Slaves, b \in Blocks : ~Build(a, b)
    <3>1. mpc' # "built" \/ UNCHANGED <<mpc, mframe>>
      BY <2>2 DEF Next, MasterStep, Send, MasterTimesOut, RejectReply, TakeReply, SendFails,
           EndExchange, SlaveOpens, SlaveStep, SlaveStops, SlaveReads, SlaveRejects,
           SlaveMisdecrypts, SlaveDecrypts, SlaveExecutes, SlaveCannotReply, SlaveReplies,
           SlaveBuildsReply, Dropped, Damage, Noise, master, vars
    <3>. QED
      BY <3>1 DEF MadeInv
  <2>. QED
    BY <2>1, <2>2
<1>2. ASSUME NEW x \in Slaves, spc'[x] = "replying"
      PROVE  sframe'[x].dir = S2M
  <2>1. CASE \E b \in Blocks : SlaveBuildsReply(x, b)
    <3>1. sframe[x] \in Frame
      BY <2>1 DEF SlaveBuildsReply, ToReply, TypeOK
    <3>2. PICK b \in Blocks : sframe'[x] = [sframe[x] EXCEPT !.dir = S2M, !.blocks = b,
                                               !.pos = sctr[x][sframe[x].addr][S2M]]
      BY <2>1 DEF SlaveBuildsReply, TypeOK
    <3>. QED
      BY <3>1, <3>2 DEF Frame
  <2>2. CASE ~\E b \in Blocks : SlaveBuildsReply(x, b)
    <3>1. spc[x] = "replying" /\ sframe'[x] = sframe[x]
      <4>1. CASE UNCHANGED <<spc, sframe>>
        BY <1>2, <4>1
      <4>2. ASSUME NEW s \in Slaves, SlaveOpens(s) \/ SlaveStops(s) \/ SlaveReads(s)
                     \/ SlaveRejects(s) \/ SlaveMisdecrypts(s) \/ SlaveDecrypts(s)
            PROVE  spc[x] = "replying" /\ sframe'[x] = sframe[x]
        BY <1>2, <4>2 DEF SlaveOpens, SlaveStops, SlaveReads, SlaveRejects, SlaveMisdecrypts,
             SlaveDecrypts, Dropped, Done, TypeOK
      <4>3. ASSUME NEW s \in Slaves, SlaveExecutes(s) \/ SlaveCannotReply(s) \/ SlaveReplies(s)
                     \/ (s # x /\ \E b \in Blocks : SlaveBuildsReply(s, b))
            PROVE  spc[x] = "replying" /\ sframe'[x] = sframe[x]
        BY <1>2, <4>3 DEF SlaveExecutes, SlaveCannotReply, SlaveReplies, SlaveBuildsReply,
             Done, TypeOK
      <4>4. CASE \/ \E a \in Slaves, b \in Blocks : Build(a, b)
                 \/ MasterStep \/ SendFails \/ Damage \/ Noise \/ UNCHANGED vars
        BY <4>1, <4>4 DEF Build, MasterStep, Send, MasterTimesOut, RejectReply, TakeReply,
             SendFails, Damage, Noise, slaves, vars
      <4>. QED
        BY <2>2, <4>2, <4>3, <4>4 DEF Next, SlaveStep
    <3>. QED
      BY <3>1 DEF MadeInv
  <2>. QED
    BY <2>1, <2>2
<1>. QED
  BY <1>1, <1>2 DEF MadeInv

\* Every step keeps a station's counter behind the requests on their way to it.
LEMMA LinkStep == TypeOK /\ TypeOK' /\ LinkInv /\ MadeInv /\ [Next]_vars => LinkInv'
<1>. SUFFICES ASSUME TypeOK, TypeOK', LinkInv, MadeInv, [Next]_vars
              PROVE  LinkInv'
  OBVIOUS
<1>1. CASE UNCHANGED vars
  BY <1>1, FewerFrames DEF vars, master, slaves, history, Unverified, Unread, Built
<1>. QED
  BY <1>1, LinkBuild, LinkMaster, LinkSlave, LinkVerify, LinkLine DEF Next, SlaveStep

\* A station's request counter is never ahead of a frame on its way to it and is
\* level with one only if it has taken every request before, for every set of
\* stations, every fault and any number of requests (secure_recv_demo.c:9-11,
\* secure_frame_verify_and_decrypt).
THEOREM StepInvCorrect == Spec => []StepInv
<1>1. StepInv <=> LinkInv /\ MadeInv
  BY DEF StepInv, LinkInv
<1>2. Init => StepInv
  BY <1>1, LinkInit
<1>3. TypeOK /\ TypeOK' /\ StepInv /\ [Next]_vars => StepInv'
  <2>1. StepInv' <=> LinkInv' /\ MadeInv'
    BY DEF StepInv, LinkInv
  <2>. QED
    BY <1>1, <2>1, LinkStep, MadeStep
<1>. QED
  BY <1>2, <1>3, TypeCorrect, PTL DEF Spec

-----------------------------------------------------------------------------

\* The log of n requests.
FirstRequests(n) == [i \in 1 .. n |-> i]

\* It is a sequence of n elements, and one more request extends it by one.
LEMMA FirstRequestsFacts ==
  ASSUME NEW n \in Nat
  PROVE  /\ FirstRequests(n) \in Seq(Nat)
         /\ Len(FirstRequests(n)) = n
         /\ \A i \in 1 .. n : FirstRequests(n)[i] = i
         /\ FirstRequests(n + 1) = Append(FirstRequests(n), n + 1)
<1>1. ASSUME NEW m \in Nat
      PROVE  /\ FirstRequests(m) \in Seq(Nat)
             /\ Len(FirstRequests(m)) = m
             /\ \A i \in 1 .. m : FirstRequests(m)[i] = i
  <2>1. FirstRequests(m) \in [1 .. m -> Nat]
    BY DEF FirstRequests
  <2>2. FirstRequests(m) \in Seq(Nat)
    BY <2>1, SeqDef
  <2>3. DOMAIN FirstRequests(m) = 1 .. m
    BY DEF FirstRequests
  <2>4. Len(FirstRequests(m)) \in Nat /\ 1 .. m = 1 .. Len(FirstRequests(m))
    BY <2>2, <2>3, LenProperties
  <2>5. Len(FirstRequests(m)) = m
    BY <2>4
  <2>. QED
    BY <2>2, <2>5 DEF FirstRequests
<1>. DEFINE longer == Append(FirstRequests(n), n + 1)
<1>2. /\ longer \in Seq(Nat) /\ Len(longer) = n + 1
      /\ \A i \in 1 .. n + 1 : longer[i] = i
  <2>1. /\ FirstRequests(n) \in Seq(Nat) /\ Len(FirstRequests(n)) = n
        /\ \A i \in 1 .. n : FirstRequests(n)[i] = i
    BY <1>1
  <2>2. n + 1 \in Nat
    OBVIOUS
  <2>3. /\ longer \in Seq(Nat) /\ Len(longer) = n + 1
        /\ \A i \in 1 .. n : longer[i] = FirstRequests(n)[i]
        /\ longer[n + 1] = n + 1
    BY <2>1, <2>2, AppendProperties
  <2>. QED
    BY <2>1, <2>3
<1>3. /\ FirstRequests(n + 1) \in Seq(Nat) /\ Len(FirstRequests(n + 1)) = n + 1
      /\ \A i \in 1 .. n + 1 : FirstRequests(n + 1)[i] = i
  BY <1>1
<1>. HIDE DEF longer
<1>4. FirstRequests(n + 1) = longer
  BY <1>2, <1>3, SeqEqual
<1>. QED
  BY <1>1, <1>4 DEF longer

\* The request a station decrypts is the one after those it has taken, and was
\* issued (secure_frame_verify_and_decrypt).
LEMMA NextTaken ==
  ASSUME TypeOK, StepInv, NEW s \in Slaves, SlaveDecrypts(s)
  PROVE  LET f == sframe[s]
             a == f.addr
         IN /\ f \in Frame /\ f \in OnTheWay(s) /\ a \in Slaves /\ f.req \in Nat
            /\ taken[s][a] \in Seq(Nat) /\ sent[a] \in Nat
            /\ Len(taken[s][a]) \in Nat
            /\ f.req = Len(taken[s][a]) + 1
            /\ f.req <= sent[a]
<1>. DEFINE f == sframe[s]
            a == f.addr
<1>1. /\ spc[s] = "got" /\ f.wire = "intact" /\ f.dir = M2S
      /\ f.pos = sctr[s][a][M2S]
  BY DEF SlaveDecrypts, SlaveAdmits, Authentic, Decrypts
<1>2. f \in Frame
  BY <1>1 DEF TypeOK
<1>3. f \in OnTheWay(s)
  BY <1>1, <1>2, FrameFields DEF OnTheWay, Unverified, Request
<1>4. a \in Slaves /\ f.req \in Nat
  BY <1>2, FrameFields
<1>5. /\ Behind(sctr[s][a][M2S], Len(taken[s][a]), f.pos, f.req)
      /\ f.req <= sent[a]
  BY <1>3, <1>4 DEF StepInv, BehindInv, OrderInv
<1>6. taken[s][a] \in Seq(Nat) /\ sent[a] \in Nat
  BY <1>4 DEF TypeOK
<1>. HIDE DEF f, a
<1>7. f.req = Len(taken[s][a]) + 1 /\ Len(taken[s][a]) \in Nat
  BY <1>1, <1>5, <1>6, LenProperties DEF Behind
<1>. QED
  BY <1>2, <1>3, <1>4, <1>5, <1>6, <1>7 DEF f, a

\* A request built is a request issued; a request decrypted is the one the log
\* has next; every other step is a stutter.
LEMMA LogStep ==
  TypeOK /\ StepInv /\ [Next]_vars => [Log!Next]_<<Issued, taken>>
<1>. SUFFICES ASSUME TypeOK, StepInv, [Next]_vars
              PROVE  [Log!Next]_<<Issued, taken>>
  OBVIOUS
<1>0. Issued = [a \in Slaves |-> FirstRequests(sent[a])]
      /\ Issued' = [a \in Slaves |-> FirstRequests(sent'[a])]
  BY DEF Issued, FirstRequests
<1>1. CASE UNCHANGED <<sent, taken>>
  BY <1>1 DEF Issued
<1>2. ASSUME NEW a \in Slaves, NEW b \in Blocks, Build(a, b)
      PROVE  Log!Next
  <2>1. /\ sent' = [sent EXCEPT ![a] = @ + 1] /\ taken' = taken
        /\ sent[a] < MaxRequests
    BY <1>2 DEF Build
  <2>2. sent \in [Slaves -> Nat]
    BY DEF TypeOK
  <2>3. FirstRequests(sent[a] + 1) = Append(FirstRequests(sent[a]), sent[a] + 1)
    BY <2>2, FirstRequestsFacts
  <2>4. Issued' = [Issued EXCEPT ![a] = Append(@, sent[a] + 1)]
    <3>1. \A x \in Slaves : sent'[x] = IF x = a THEN sent[a] + 1 ELSE sent[x]
      BY <2>1, <2>2
    <3>. QED
      BY <1>0, <2>3, <3>1
  <2>5. MaxRequests \in Nat
    BY Zenon, SecureLinkAssumption
  <2>6. sent[a] + 1 \in 1 .. MaxRequests
    BY <2>1, <2>2, <2>5
  <2>. QED
    BY <2>1, <2>4, <2>6 DEF Log!Next, Log!Issue
<1>3. ASSUME NEW s \in Slaves, SlaveDecrypts(s)
      PROVE  Log!Next
  <2>. DEFINE f == sframe[s]
              a == f.addr
  <2>1. taken' = [taken EXCEPT ![s][a] = Append(@, f.req)] /\ sent' = sent
    BY <1>3 DEF SlaveDecrypts
  <2>2. /\ a \in Slaves /\ f.req \in Nat /\ sent[a] \in Nat
        /\ Len(taken[s][a]) \in Nat
        /\ f.req = Len(taken[s][a]) + 1 /\ f.req <= sent[a]
    BY <1>3, NextTaken
  <2>. HIDE DEF f, a
  <2>3. Issued[a] = FirstRequests(sent[a])
    BY <1>0, <2>2
  <2>4. Len(Issued[a]) = sent[a] /\ Issued[a][f.req] = f.req
    <3>1. f.req \in 1 .. sent[a]
      BY <2>2
    <3>. QED
      BY <2>2, <2>3, <3>1, FirstRequestsFacts
  <2>5. Len(taken[s][a]) < Len(Issued[a])
    BY <2>2, <2>4
  <2>6. taken' = [taken EXCEPT ![s][a] = Append(@, Issued[a][Len(@) + 1])]
    BY <2>1, <2>2, <2>4
  <2>7. Issued' = Issued
    BY <2>1, <1>0
  <2>. QED
    BY <2>2, <2>5, <2>6, <2>7 DEF Log!Next, Log!Take
<1>4. CASE ~ \/ \E a \in Slaves, b \in Blocks : Build(a, b)
             \/ \E s \in Slaves : SlaveDecrypts(s)
  <2>1. UNCHANGED <<sent, taken>>
    BY <1>4 DEF Next, MasterStep, Send, MasterTimesOut, RejectReply, TakeReply, SendFails,
         SlaveOpens, SlaveStep, SlaveStops, SlaveReads, SlaveRejects, SlaveMisdecrypts,
         SlaveExecutes, SlaveCannotReply, SlaveReplies, SlaveBuildsReply, Dropped, Damage,
         Noise, history, vars
  <2>. QED
    BY <1>1, <2>1
<1>. QED
  BY <1>2, <1>3, <1>4

\* The link implements the log of requests: for every set of stations, every
\* fault and any number of requests, a station takes the requests of an address
\* in the order they were built, each once and none skipped
\* (secure_recv_demo.c:9-11, secure_frame_verify_and_decrypt).
THEOREM LinkImplementsLog == Spec => RequestsInOrder
<1>1. Init => Log!Init
  <2>1. ASSUME Init PROVE Issued = [a \in Slaves |-> <<>>]
    <3>1. \A a \in Slaves : sent[a] = 0
      BY <2>1 DEF Init
    <3>2. [i \in 1 .. 0 |-> i] = <<>>
      OBVIOUS
    <3>. QED
      BY <3>1, <3>2 DEF Issued
  <2>. QED
    BY <2>1 DEF Init, Log!Init
<1>. QED
  BY <1>1, LogStep, TypeCorrect, StepInvCorrect, PTL DEF Spec, RequestsInOrder, Log!Spec

-----------------------------------------------------------------------------

\* Executing the request a station took last keeps its executed ones in order
\* (modbus_build_response, called once per verified frame).
LEMMA ExecuteStep ==
  ASSUME TypeOK, AppliedInv, NEW s \in Slaves, SlaveExecutes(s)
  PROVE  AppliedInv'
<1>. DEFINE f == sframe[s]
            a == f.addr
<1>1. /\ spc[s] = "verified"
      /\ applied' = [applied EXCEPT ![s][a] = Append(@, f.req)]
      /\ spc' = [spc EXCEPT ![s] = "executed"]
      /\ UNCHANGED <<sframe, taken>>
  BY DEF SlaveExecutes, ToExecute
<1>2. f \in Frame
  BY <1>1 DEF TypeOK
<1>3. a \in Slaves /\ f.req \in Nat
  BY <1>2, FrameFields
<1>4. /\ applied \in [Slaves -> [Slaves -> Seq(Nat)]]
      /\ taken[s][a] \in Seq(Nat) /\ Len(taken[s][a]) \in Nat
      /\ spc' \in [Slaves -> {"closed", "listening", "got", "verified", "executed", "replying"}]
  BY SMTT(30), <1>1, <1>3, LenProperties DEF TypeOK
<1>5. /\ f.req = Len(taken[s][a])
      /\ \A i \in DOMAIN applied[s][a] : applied[s][a][i] < f.req
  BY <1>1 DEF AppliedInv
<1>6. /\ \A i, j \in DOMAIN applied[s][a] : i < j => applied[s][a][i] < applied[s][a][j]
      /\ \A i \in DOMAIN applied[s][a] : applied[s][a][i] <= Len(taken[s][a])
  BY <1>3 DEF AppliedInv, AppliedOnce
<1>. HIDE DEF f, a
<1>7. /\ applied'[s][a] = Append(applied[s][a], f.req)
      /\ \A r, x \in Slaves : <<r, x>> # <<s, a>> => applied'[r][x] = applied[r][x]
  BY <1>1, <1>3, <1>4
<1>8. /\ \A i, j \in DOMAIN applied'[s][a] : i < j => applied'[s][a][i] < applied'[s][a][j]
      /\ \A i \in DOMAIN applied'[s][a] : applied'[s][a][i] <= Len(taken[s][a])
  <2>. DEFINE old == applied[s][a]
              new == Append(old, f.req)
              n   == Len(old)
  <2>1. old \in Seq(Nat) /\ n \in Nat /\ DOMAIN old = 1 .. n
    BY <1>3, <1>4, LenProperties
  <2>2. /\ DOMAIN new = 1 .. n + 1
        /\ \A i \in 1 .. n : new[i] = old[i]
        /\ new[n + 1] = f.req
    <3>1. new \in Seq(Nat) /\ Len(new) = n + 1
      BY <1>3, <2>1, AppendProperties
    <3>2. DOMAIN new = 1 .. Len(new)
      BY <3>1, LenProperties
    <3>. QED
      BY <1>3, <2>1, <3>1, <3>2, AppendProperties
  <2>3. \A i \in 1 .. n : old[i] \in Nat /\ old[i] < f.req
    BY <1>5, <2>1, ElementOfSeq
  <2>4. \A i, j \in 1 .. n : i < j => old[i] < old[j]
    BY <1>6, <2>1
  <2>. HIDE DEF old, new, n
  <2>5. \A i, j \in DOMAIN new : i < j => new[i] < new[j]
    <3>1. TAKE i, j \in DOMAIN new
    <3>2. HAVE i < j
    <3>3. i \in 1 .. n /\ new[i] = old[i] /\ i \in Nat
      BY <2>1, <2>2, <3>1, <3>2
    <3>4. CASE j = n + 1
      BY <2>2, <2>3, <3>3, <3>4
    <3>5. CASE j # n + 1
      <4>1. j \in 1 .. n
        BY <2>1, <2>2, <3>1, <3>5
      <4>. QED
        BY <2>2, <2>4, <3>2, <3>3, <4>1
    <3>. QED
      BY <3>4, <3>5
  <2>6. \A i \in DOMAIN new : new[i] <= Len(taken[s][a])
    <3>1. TAKE i \in DOMAIN new
    <3>2. CASE i = n + 1
      BY <1>3, <1>5, <2>2, <3>2
    <3>3. CASE i # n + 1
      <4>1. i \in 1 .. n
        BY <2>1, <2>2, <3>1, <3>3
      <4>. QED
        BY <1>3, <1>5, <2>2, <2>3, <4>1
    <3>. QED
      BY <3>2, <3>3
  <2>. QED
    BY <1>7, <2>5, <2>6 DEF old, new
<1>9. AppliedOnce'
  <2>1. ASSUME NEW r \in Slaves, NEW x \in Slaves
        PROVE  /\ \A i, j \in DOMAIN applied'[r][x] :
                    i < j => applied'[r][x][i] < applied'[r][x][j]
               /\ \A i \in DOMAIN applied'[r][x] : applied'[r][x][i] <= Len(taken[r][x])
    <3>1. CASE r = s /\ x = a
      BY <1>8, <3>1
    <3>2. CASE ~(r = s /\ x = a)
      <4>1. applied'[r][x] = applied[r][x]
        BY <1>7, <3>2
      <4>. QED
        BY <4>1 DEF AppliedInv, AppliedOnce
    <3>. QED
      BY <3>1, <3>2
  <2>2. taken' = taken
    BY <1>1
  <2>. QED
    BY <2>1, <2>2 DEF AppliedOnce
<1>10. ASSUME NEW r \in Slaves, spc'[r] = "verified"
       PROVE  /\ sframe'[r].req = Len(taken'[r][sframe'[r].addr])
              /\ \A i \in DOMAIN applied'[r][sframe'[r].addr] :
                   applied'[r][sframe'[r].addr][i] < sframe'[r].req
  <2>1. r # s /\ spc[r] = "verified"
    BY <1>1, <1>4, <1>10 DEF TypeOK
  <2>2. sframe[r] \in Frame
    BY <2>1 DEF TypeOK
  <2>3. applied'[r][sframe[r].addr] = applied[r][sframe[r].addr]
    BY <1>7, <2>1, <2>2, FrameFields
  <2>. QED
    BY <1>1, <2>1, <2>3 DEF AppliedInv
<1>. QED
  BY <1>9, <1>10 DEF AppliedInv

\* Taking a request leaves the executed ones behind it.
LEMMA TakeStep ==
  ASSUME TypeOK, StepInv, AppliedInv, NEW s \in Slaves, SlaveDecrypts(s)
  PROVE  AppliedInv'
<1>. DEFINE f == sframe[s]
            a == f.addr
<1>1. /\ taken' = [taken EXCEPT ![s][a] = Append(@, f.req)]
      /\ spc' = [spc EXCEPT ![s] = "verified"]
      /\ UNCHANGED <<sframe, applied>>
  BY DEF SlaveDecrypts, master
<1>2. /\ a \in Slaves /\ f.req \in Nat /\ taken[s][a] \in Seq(Nat)
      /\ Len(taken[s][a]) \in Nat /\ f.req = Len(taken[s][a]) + 1
  BY NextTaken
<1>3. taken \in [Slaves -> [Slaves -> Seq(Nat)]]
  BY DEF TypeOK
<1>4. applied[s][a] \in Seq(Nat)
  BY <1>2 DEF TypeOK
<1>5. \A i \in DOMAIN applied[s][a] :
        applied[s][a][i] \in Nat /\ applied[s][a][i] <= Len(taken[s][a])
  <2>1. \A i \in DOMAIN applied[s][a] : applied[s][a][i] <= Len(taken[s][a])
    BY <1>2 DEF AppliedInv, AppliedOnce
  <2>2. \A i \in DOMAIN applied[s][a] : applied[s][a][i] \in Nat
    BY <1>4, LenProperties, ElementOfSeq
  <2>. QED
    BY <2>1, <2>2
<1>. HIDE DEF f, a
<1>6. /\ Len(taken'[s][a]) = f.req
      /\ \A r, x \in Slaves : <<r, x>> # <<s, a>> => taken'[r][x] = taken[r][x]
  <2>1. /\ taken'[s][a] = Append(taken[s][a], f.req)
        /\ \A r, x \in Slaves : <<r, x>> # <<s, a>> => taken'[r][x] = taken[r][x]
    BY <1>1, <1>2, <1>3
  <2>. QED
    BY <1>2, <2>1, AppendProperties
<1>7. \A i \in DOMAIN applied[s][a] : applied[s][a][i] < f.req
  BY <1>2, <1>5
<1>8. AppliedOnce'
  <2>1. ASSUME NEW r \in Slaves, NEW x \in Slaves
        PROVE  /\ \A i, j \in DOMAIN applied[r][x] :
                    i < j => applied[r][x][i] < applied[r][x][j]
               /\ \A i \in DOMAIN applied[r][x] : applied[r][x][i] <= Len(taken'[r][x])
    <3>1. \A i, j \in DOMAIN applied[r][x] : i < j => applied[r][x][i] < applied[r][x][j]
      BY DEF AppliedInv, AppliedOnce
    <3>2. CASE r = s /\ x = a
      BY <1>2, <1>5, <1>6, <3>1, <3>2
    <3>3. CASE ~(r = s /\ x = a)
      <4>1. taken'[r][x] = taken[r][x]
        BY <1>6, <3>3
      <4>. QED
        BY <3>1, <4>1 DEF AppliedInv, AppliedOnce
    <3>. QED
      BY <3>2, <3>3
  <2>. QED
    BY <1>1, <2>1 DEF AppliedOnce
<1>9. ASSUME NEW r \in Slaves, spc'[r] = "verified"
      PROVE  /\ sframe[r].req = Len(taken'[r][sframe[r].addr])
             /\ \A i \in DOMAIN applied[r][sframe[r].addr] :
                  applied[r][sframe[r].addr][i] < sframe[r].req
  <2>1. CASE r = s
    BY <1>6, <1>7, <2>1 DEF f, a
  <2>2. CASE r # s
    <3>1. spc[r] = "verified"
      BY <1>1, <1>9, <2>2 DEF TypeOK
    <3>2. sframe[r] \in Frame
      BY <3>1 DEF TypeOK
    <3>3. taken'[r][sframe[r].addr] = taken[r][sframe[r].addr]
      BY <1>6, <2>2, <3>2, FrameFields
    <3>. QED
      BY <3>1, <3>3 DEF AppliedInv
  <2>. QED
    BY <2>1, <2>2
<1>. QED
  BY <1>1, <1>8, <1>9 DEF AppliedInv

\* Every step keeps the executed requests in order and behind the taken ones.
LEMMA AppliedStep == TypeOK /\ StepInv /\ AppliedInv /\ [Next]_vars => AppliedInv'
<1>. SUFFICES ASSUME TypeOK, StepInv, AppliedInv, [Next]_vars
              PROVE  AppliedInv'
  OBVIOUS
<1>1. CASE ~\E s \in Slaves : SlaveExecutes(s) \/ SlaveDecrypts(s)
  <2>1. UNCHANGED <<taken, applied>>
    BY <1>1 DEF Next, Build, MasterStep, Send, MasterTimesOut, RejectReply, TakeReply,
         SendFails, SlaveOpens, SlaveStep, SlaveStops, SlaveReads, SlaveRejects,
         SlaveMisdecrypts, SlaveCannotReply, SlaveReplies, SlaveBuildsReply, Dropped,
         Damage, Noise, history, vars
  <2>2. ASSUME NEW r \in Slaves, spc'[r] = "verified"
        PROVE  spc[r] = "verified" /\ sframe'[r] = sframe[r]
    <3>1. CASE UNCHANGED <<spc, sframe>>
      BY <2>2, <3>1
    <3>2. ASSUME NEW s \in Slaves, SlaveOpens(s) \/ SlaveStops(s) \/ SlaveReads(s)
                   \/ SlaveRejects(s) \/ SlaveMisdecrypts(s)
          PROVE  spc[r] = "verified" /\ sframe'[r] = sframe[r]
      BY <2>2, <3>2 DEF SlaveOpens, SlaveStops, SlaveReads, SlaveRejects, SlaveMisdecrypts,
           Dropped, Done, TypeOK
    <3>3. ASSUME NEW s \in Slaves, SlaveCannotReply(s) \/ SlaveReplies(s)
                   \/ \E b \in Blocks : SlaveBuildsReply(s, b)
          PROVE  spc[r] = "verified" /\ sframe'[r] = sframe[r]
      BY <2>2, <3>3 DEF SlaveCannotReply, SlaveReplies, SlaveBuildsReply, Done, TypeOK
    <3>4. CASE \/ \E a \in Slaves, b \in Blocks : Build(a, b)
               \/ MasterStep \/ SendFails \/ Damage \/ Noise \/ UNCHANGED vars
      BY <3>1, <3>4 DEF Build, MasterStep, Send, MasterTimesOut, RejectReply, TakeReply,
           SendFails, Damage, Noise, slaves, vars
    <3>. QED
      BY <1>1, <3>2, <3>3, <3>4 DEF Next, SlaveStep
  <2>. QED
    BY <2>1, <2>2 DEF AppliedInv, AppliedOnce
<1>. QED
  BY <1>1, ExecuteStep, TakeStep

\* A station executes the requests of an address in order and each at most once,
\* whenever it stops and starts again, for every set of stations, every fault
\* and any number of requests (secure_recv_demo.c:100).
THEOREM ExecutedOnce == Spec => []AppliedOnce
<1>1. Init => AppliedInv
  BY DEF Init, AppliedInv, AppliedOnce
<1>2. AppliedInv => AppliedOnce
  BY DEF AppliedInv
<1>. QED
  BY <1>1, <1>2, AppliedStep, TypeCorrect, StepInvCorrect, PTL DEF Spec

-----------------------------------------------------------------------------
(* A loss is never made up for *)

\* Only what the master has just built comes to be on its way to a station.
LEMMA Arrivals ==
  ASSUME TypeOK, MadeInv, [Next]_vars, NEW s \in Slaves
  PROVE  \A f \in OnTheWay(s)' :
           \/ f \in OnTheWay(s)
           \/ \E a \in Slaves, b \in Blocks : Build(a, b) /\ f = mframe'
<1>1. Request(rx'[s]) => rx'[s] = rx[s] \/ (mpc = "built" /\ rx'[s] = mframe)
  <2>0. rx \in [Slaves -> Frame \cup {NoFrame}]
    BY DEF TypeOK
  <2>1. CASE Send
    <3>1. mframe \in Frame /\ mpc = "built"
      BY <2>1 DEF Send, TypeOK
    <3>2. rx'[s] = rx[s] \/ rx'[s] = Joined(rx[s], mframe)
      BY <2>1, HearBuffers DEF Send
    <3>3. Joined(rx[s], mframe).wire = "altered" \/ Joined(rx[s], mframe) = mframe
      BY <2>0, <3>1, JoinedType
    <3>. QED
      BY <3>1, <3>2, <3>3 DEF Request
  <2>2. ASSUME NEW x \in Slaves, SlaveReplies(x)
        PROVE  Request(rx'[s]) => rx'[s] = rx[s]
    <3>1. sframe[x] \in Frame /\ sframe[x].dir = S2M
      BY <2>2 DEF SlaveReplies, MadeInv, TypeOK
    <3>2. rx'[s] = rx[s] \/ rx'[s] = Joined(rx[s], sframe[x])
      BY <2>2, HearBuffers DEF SlaveReplies
    <3>3. Joined(rx[s], sframe[x]).wire = "altered" \/ Joined(rx[s], sframe[x]) = sframe[x]
      BY <2>0, <3>1, JoinedType
    <3>. QED
      BY <3>1, <3>2, <3>3, DirFacts DEF Request
  <2>3. CASE Damage \/ Noise
    BY <2>3, LineFrames DEF Request
  <2>4. ASSUME NEW x \in Slaves,
               SlaveOpens(x) \/ SlaveReads(x) \/ SlaveRejects(x) \/ SlaveMisdecrypts(x)
        PROVE  rx'[s] = rx[s] \/ rx'[s] = NoFrame
    BY <2>0, <2>4 DEF SlaveOpens, SlaveReads, SlaveRejects, SlaveMisdecrypts, Dropped
  <2>5. ASSUME NEW x \in Slaves,
               \/ SlaveDecrypts(x) \/ SlaveExecutes(x) \/ SlaveCannotReply(x) \/ SlaveStops(x)
               \/ \E b \in Blocks : SlaveBuildsReply(x, b)
        PROVE  rx' = rx
    BY <2>5 DEF SlaveDecrypts, SlaveExecutes, SlaveCannotReply, SlaveStops, SlaveBuildsReply
  <2>6. CASE \/ \E a \in Slaves, b \in Blocks : Build(a, b)
             \/ MasterTimesOut \/ RejectReply \/ TakeReply \/ SendFails \/ UNCHANGED vars
    BY <2>6 DEF Build, MasterTimesOut, RejectReply, TakeReply, SendFails, slaves, vars
  <2>. QED
    BY <2>1, <2>2, <2>3, <2>4, <2>5, <2>6 DEF Next, MasterStep, SlaveStep, Request
<1>2. spc'[s] = "got" => \/ spc[s] = "got" /\ sframe'[s] = sframe[s]
                         \/ sframe'[s] = rx[s]
  <2>1. ASSUME NEW x \in Slaves, SlaveReads(x)
        PROVE  <1>2
    BY <2>1 DEF SlaveReads, TypeOK
  <2>2. ASSUME NEW x \in Slaves,
               \/ SlaveOpens(x) \/ SlaveStops(x) \/ SlaveRejects(x) \/ SlaveMisdecrypts(x)
               \/ SlaveDecrypts(x)
        PROVE  <1>2
    BY <2>2 DEF SlaveOpens, SlaveStops, SlaveRejects, SlaveMisdecrypts, SlaveDecrypts, Dropped,
                Done, TypeOK
  <2>3. ASSUME NEW x \in Slaves,
               \/ SlaveExecutes(x) \/ SlaveCannotReply(x) \/ SlaveReplies(x)
               \/ \E b \in Blocks : SlaveBuildsReply(x, b)
        PROVE  <1>2
    BY <2>3 DEF SlaveExecutes, SlaveCannotReply, SlaveReplies, SlaveBuildsReply, Done, TypeOK
  <2>4. CASE \/ \E a \in Slaves, b \in Blocks : Build(a, b)
             \/ MasterStep \/ SendFails \/ Damage \/ Noise \/ UNCHANGED vars
    BY <2>4 DEF Build, MasterStep, Send, MasterTimesOut, RejectReply, TakeReply, SendFails,
                Damage, Noise, slaves, vars
  <2>. QED
    BY <2>1, <2>2, <2>3, <2>4 DEF Next, SlaveStep
<1>3. \/ mpc' # "built" \/ UNCHANGED <<mpc, mframe>>
      \/ \E a \in Slaves, b \in Blocks : Build(a, b)
  BY DEF Next, MasterStep, Send, MasterTimesOut, RejectReply, TakeReply, SendFails,
         EndExchange, SlaveOpens, SlaveStep, SlaveStops, SlaveReads, SlaveRejects,
         SlaveMisdecrypts, SlaveDecrypts, SlaveExecutes, SlaveCannotReply, SlaveReplies,
         SlaveBuildsReply, Dropped, Damage, Noise, master, vars
<1>. QED
  BY <1>1, <1>2, <1>3 DEF OnTheWay, Unverified, Unread, Built

\* A station that misses the next request of an address does not take a later
\* one, and still misses it after any step.
LEMMA LossStep ==
  ASSUME TypeOK, StepInv, [Next]_vars, NEW s \in Slaves, NEW a \in Slaves, Lost(s, a)
  PROVE  taken'[s][a] = taken[s][a] /\ Lost(s, a)'
<1>. DEFINE next == Len(taken[s][a]) + 1
<1>1. /\ next \in Nat /\ sent[a] \in Nat /\ next <= sent[a]
      /\ \A f \in OnTheWay(s) : ~(f.addr = a /\ f.req = next)
  <2>1. taken[s][a] \in Seq(Nat) /\ sent[a] \in Nat
    BY DEF TypeOK
  <2>. QED
    BY <2>1, LenProperties DEF Lost
<1>2. taken'[s][a] = taken[s][a]
  <2>1. CASE \A x \in Slaves : ~SlaveDecrypts(x)
    <3>1. taken' = taken
      BY <2>1 DEF Next, Build, MasterStep, Send, MasterTimesOut, RejectReply, TakeReply,
           SendFails, SlaveOpens, SlaveStep, SlaveStops, SlaveReads, SlaveRejects,
           SlaveMisdecrypts, SlaveExecutes, SlaveCannotReply, SlaveReplies, SlaveBuildsReply,
           Dropped, Damage, Noise, history, vars
    <3>. QED
      BY <3>1
  <2>2. ASSUME NEW x \in Slaves, SlaveDecrypts(x)
        PROVE  taken'[s][a] = taken[s][a]
    <3>1. /\ sframe[x] \in OnTheWay(x) /\ sframe[x].addr \in Slaves
          /\ sframe[x].req = Len(taken[x][sframe[x].addr]) + 1
      BY <2>2, NextTaken
    <3>2. <<x, sframe[x].addr>> # <<s, a>>
      BY <1>1, <3>1
    <3>3. taken' = [taken EXCEPT ![x][sframe[x].addr] = Append(@, sframe[x].req)]
      BY <2>2 DEF SlaveDecrypts
    <3>. QED
      BY <3>1, <3>2, <3>3 DEF TypeOK
  <2>. QED
    BY <2>1, <2>2
<1>3. \/ sent' = sent /\ \A b \in Slaves, n \in Blocks : ~Build(b, n)
      \/ \E b \in Slaves, n \in Blocks :
           Build(b, n) /\ sent' = [sent EXCEPT ![b] = @ + 1] /\ mframe'.addr = b
           /\ mframe'.req = sent[b] + 1
  <2>1. ASSUME NEW b \in Slaves, NEW n \in Blocks, Build(b, n)
        PROVE  /\ sent' = [sent EXCEPT ![b] = @ + 1]
               /\ mframe'.addr = b /\ mframe'.req = sent[b] + 1
    BY <2>1 DEF Build
  <2>2. CASE \A b \in Slaves, n \in Blocks : ~Build(b, n)
    <3>1. sent' = sent
      BY <2>2 DEF Next, MasterStep, Send, MasterTimesOut, RejectReply, TakeReply,
           SendFails, SlaveOpens, SlaveStep, SlaveStops, SlaveReads, SlaveRejects,
           SlaveMisdecrypts, SlaveDecrypts, SlaveExecutes, SlaveCannotReply, SlaveReplies,
           SlaveBuildsReply, Dropped, Damage, Noise, history, vars
    <3>. QED
      BY <2>2, <3>1
  <2>. QED
    BY <2>1, <2>2
<1>4. sent'[a] \in Nat /\ sent[a] <= sent'[a]
  <2>1. sent \in [Slaves -> Nat]
    BY DEF TypeOK
  <2>2. CASE sent' = sent
    BY <1>1, <2>2
  <2>3. ASSUME NEW b \in Slaves, sent' = [sent EXCEPT ![b] = @ + 1]
        PROVE  <1>4
    <3>1. sent'[a] = IF a = b THEN sent[a] + 1 ELSE sent[a]
      BY <2>1, <2>3
    <3>. QED
      BY <1>1, <3>1
  <2>. QED
    BY <1>3, <2>2, <2>3
<1>5. \A f \in OnTheWay(s)' : ~(f.addr = a /\ f.req = next)
  <2>1. SUFFICES ASSUME NEW f \in OnTheWay(s)', f \notin OnTheWay(s), f.addr = a, f.req = next
                 PROVE  FALSE
    BY <1>1
  <2>2. f = mframe' /\ \E b \in Slaves, n \in Blocks : Build(b, n)
    BY <2>1, Arrivals DEF StepInv
  <2>3. f.req = sent[a] + 1
    BY <1>3, <2>1, <2>2
  <2>. QED
    BY <1>1, <2>1, <2>3
<1>. QED
  BY <1>1, <1>2, <1>4, <1>5 DEF Lost

\* Once a request has been missed, whatever the line, the master and the
\* stations do afterwards, the station takes no later one of that address
\* (secure_recv_demo.c:11, secure_frame_verify_and_decrypt's CRC check).
THEOREM LossForGood == Spec => LossIsFinal
<1>. DEFINE Kept == \A s, a \in Slaves :
                      Lost(s, a) => taken'[s][a] = taken[s][a] /\ Lost(s, a)'
<1>1. TypeOK /\ StepInv /\ [Next]_vars => [Kept]_vars
  BY LossStep
<1>. QED
  BY <1>1, TypeCorrect, StepInvCorrect, PTL DEF Spec, LossIsFinal

-----------------------------------------------------------------------------
(* A success is earned *)

\* The history's lengths are numbers, and a frame at work has an address.
LEMMA WorkTypes ==
  ASSUME TypeOK
  PROVE  /\ \A s, a \in Slaves : taken[s][a] \in Seq(Nat) /\ Len(taken[s][a]) \in Nat
         /\ \A s \in Slaves :
              Working(s) => /\ sframe[s] \in Frame
                            /\ sframe[s].addr \in Slaves /\ sframe[s].req \in Nat
         /\ Reply(mrx) => mrx \in Frame /\ mrx.addr \in Slaves /\ mrx.req \in Nat
<1>1. \A s, a \in Slaves : taken[s][a] \in Seq(Nat) /\ Len(taken[s][a]) \in Nat
  BY LenProperties DEF TypeOK
<1>2. ASSUME NEW s \in Slaves, Working(s)
      PROVE  sframe[s] \in Frame /\ sframe[s].addr \in Slaves /\ sframe[s].req \in Nat
  <2>1. sframe[s] \in Frame
    BY <1>2 DEF TypeOK, Working
  <2>. QED
    BY <2>1, FrameFields
<1>3. ASSUME Reply(mrx)
      PROVE  mrx \in Frame /\ mrx.addr \in Slaves /\ mrx.req \in Nat
  <2>1. mrx \in Frame
    BY <1>3 DEF TypeOK, Reply
  <2>. QED
    BY <2>1, FrameFields
<1>. QED
  BY <1>1, <1>2, <1>3

\* What a step that takes, executes and confirms nothing leaves alone: a station
\* still at work has the same request in hand, or its reply.
SameWork ==
  /\ taken' = taken /\ applied' = applied /\ confirmed' = confirmed
  /\ \A s \in Slaves : Working(s)' =>
       /\ Working(s)
       /\ spc[s] = "verified" => spc'[s] = "verified"
       /\ sframe'[s].addr = sframe[s].addr /\ sframe'[s].req = sframe[s].req

\* Such a step keeps the invariant when no reply comes before the master, or one
\* to an executed request that is later than those confirmed.
LEMMA QuietStep ==
  ASSUME TypeOK, WorkInv, ReplyInv, PastInv, SuccessIsEarned, SameWork,
         \/ Reply(mrx') => mrx' = mrx
         \/ ReplyInv' /\ \A c \in confirmed : mrx'.addr = c.addr => c.rep < mrx'.req
  PROVE  WorkInv' /\ ReplyInv' /\ PastInv' /\ SuccessIsEarned'
<1>1. \A s, a \in Slaves, r \in Nat : Past(s, a, r) => Past(s, a, r)'
  BY DEF Past, SameWork
<1>2. WorkInv'
  <2>1. SUFFICES ASSUME NEW s \in Slaves, Working(s)'
                 PROVE  LET f == sframe'[s]
                        IN /\ Serves(s, f.addr) /\ f.req = Len(taken[s][f.addr])
                           /\ spc'[s] # "verified" => Executed(s, f.addr, f.req)
    BY DEF WorkInv, SameWork, Executed, Serves
  <2>2. /\ Working(s)
        /\ spc'[s] # "verified" => spc[s] # "verified"
        /\ sframe'[s].addr = sframe[s].addr /\ sframe'[s].req = sframe[s].req
    BY <2>1 DEF SameWork
  <2>. QED
    BY <2>2 DEF WorkInv
<1>3. ReplyInv'
  <2>1. SUFFICES ASSUME Reply(mrx), mrx' = mrx
                 PROVE  \E s \in Slaves : /\ Serves(s, mrx.addr) /\ Executed(s, mrx.addr, mrx.req)
                                          /\ Past(s, mrx.addr, mrx.req)'
    BY DEF ReplyInv, Executed, SameWork, Serves, Past, Reply, Working
  <2>2. mrx.addr \in Slaves /\ mrx.req \in Nat
    BY <2>1, WorkTypes
  <2>. QED
    BY <1>1, <2>1, <2>2 DEF ReplyInv
<1>4. PastInv'
  <2>1. SUFFICES ASSUME NEW c \in confirmed
                 PROVE  /\ \A s \in Slaves : Serves(s, c.addr) => Past(s, c.addr, c.rep)'
                        /\ Reply(mrx') /\ mrx'.addr = c.addr => c.rep < mrx'.req
    BY DEF PastInv, SameWork, Serves, Past, Reply, Working
  <2>2. c.addr \in Slaves /\ c.rep \in Nat
    BY DEF TypeOK
  <2>. QED
    BY <1>1, <2>2 DEF PastInv
<1>5. SuccessIsEarned'
  BY DEF SuccessIsEarned, SameWork
<1>. QED
  BY <1>2, <1>3, <1>4, <1>5

\* Every step that takes, executes, replies and confirms nothing is such a step.
LEMMA QuietActions ==
  ASSUME TypeOK, [Next]_vars, \A s \in Slaves : ~(SlaveDecrypts(s) \/ SlaveExecutes(s)), ~TakeReply
  PROVE  SameWork
<1>1. ASSUME NEW s \in Slaves,
             SlaveOpens(s) \/ SlaveReads(s) \/ SlaveRejects(s) \/ SlaveMisdecrypts(s)
      PROVE  SameWork
  BY ZenonT(30), <1>1 DEF SameWork, SlaveOpens, SlaveReads, SlaveRejects, SlaveMisdecrypts, Dropped, Done,
       history, Working, TypeOK
<1>2. ASSUME NEW s \in Slaves, SlaveCannotReply(s) \/ SlaveStops(s) \/ SlaveReplies(s)
      PROVE  SameWork
  BY <1>2 DEF SameWork, SlaveCannotReply, SlaveStops, SlaveReplies, Done, history, Working, TypeOK
<1>3. ASSUME NEW s \in Slaves, NEW b \in Blocks, SlaveBuildsReply(s, b)
      PROVE  SameWork
  <2>1. /\ spc[s] = "executed" /\ spc' = [spc EXCEPT ![s] = "replying"]
        /\ sframe' = [sframe EXCEPT ![s] = [sframe[s] EXCEPT !.dir = S2M, !.blocks = b,
                                              !.pos = sctr[s][sframe[s].addr][S2M]]]
        /\ UNCHANGED history
    BY <1>3 DEF SlaveBuildsReply, ToReply
  <2>2. sframe[s] \in Frame
    BY <2>1 DEF TypeOK
  <2>3. sframe'[s].addr = sframe[s].addr /\ sframe'[s].req = sframe[s].req
    BY <2>1, <2>2 DEF TypeOK, Frame
  <2>4. \A x \in Slaves : x # s => spc'[x] = spc[x] /\ sframe'[x] = sframe[x]
    BY <2>1 DEF TypeOK
  <2>. QED
    BY <2>1, <2>3, <2>4 DEF SameWork, history, Working
<1>4. CASE \/ \E a \in Slaves, b \in Blocks : Build(a, b)
           \/ Send \/ MasterTimesOut \/ RejectReply \/ SendFails \/ Damage \/ Noise
           \/ UNCHANGED vars
  BY <1>4 DEF SameWork, Build, Send, MasterTimesOut, RejectReply, SendFails, Damage, Noise,
       history, slaves, vars, Working
<1>. QED
  BY <1>1, <1>2, <1>3, <1>4 DEF Next, MasterStep, SlaveStep

\* The master works on the last request it built for an address.
LEMMA CurrentStep == TypeOK /\ CurrentInv /\ [Next]_vars => CurrentInv'
<1>. SUFFICES ASSUME TypeOK, CurrentInv, [Next]_vars
              PROVE  CurrentInv'
  OBVIOUS
<1>1. ASSUME NEW a \in Slaves, NEW b \in Blocks, Build(a, b)
      PROVE  CurrentInv'
  BY <1>1 DEF Build, CurrentInv, TypeOK
<1>2. CASE MasterTimesOut \/ RejectReply \/ TakeReply \/ SendFails
  BY <1>2 DEF MasterTimesOut, RejectReply, TakeReply, SendFails, EndExchange, CurrentInv
<1>3. CASE Send
  BY <1>3 DEF Send, CurrentInv, history
<1>4. CASE \/ Damage \/ Noise \/ UNCHANGED vars
           \/ \E s \in Slaves : SlaveOpens(s) \/ SlaveStep(s) \/ SlaveStops(s)
  <2>1. UNCHANGED <<mpc, mframe, sent>>
    BY <1>4 DEF Damage, Noise, SlaveOpens, SlaveStep, SlaveStops, SlaveReads, SlaveRejects,
         SlaveMisdecrypts, SlaveDecrypts, SlaveExecutes, SlaveCannotReply, SlaveReplies,
         SlaveBuildsReply, Dropped, history, master, vars
  <2>. QED
    BY <2>1 DEF CurrentInv
<1>. QED
  BY <1>1, <1>2, <1>3, <1>4 DEF Next, MasterStep

\* A station takes no more requests of an address than were built.
LEMMA LagStep == TypeOK /\ StepInv /\ LagInv /\ [Next]_vars => LagInv'
<1>. SUFFICES ASSUME TypeOK, StepInv, LagInv, [Next]_vars
              PROVE  LagInv'
  OBVIOUS
<1>1. ASSUME NEW a \in Slaves, NEW b \in Blocks, Build(a, b)
      PROVE  LagInv'
  <2>1. taken' = taken /\ sent' = [sent EXCEPT ![a] = @ + 1]
    BY <1>1 DEF Build
  <2>2. sent \in [Slaves -> Nat]
    BY DEF TypeOK
  <2>3. \A x \in Slaves : sent'[x] = IF x = a THEN sent[x] + 1 ELSE sent[x]
    BY <2>1, <2>2
  <2>. QED
    BY <2>1, <2>2, <2>3, WorkTypes DEF LagInv
<1>2. ASSUME NEW s \in Slaves, SlaveDecrypts(s)
      PROVE  LagInv'
  <2>. DEFINE a == sframe[s].addr
              r == sframe[s].req
  <2>1. /\ taken' = [taken EXCEPT ![s][a] = Append(@, r)] /\ sent' = sent
        /\ taken \in [Slaves -> [Slaves -> Seq(Nat)]]
    BY <1>2 DEF SlaveDecrypts, TypeOK
  <2>2. /\ a \in Slaves /\ r \in Nat /\ r = Len(taken[s][a]) + 1 /\ r <= sent[a]
        /\ taken[s][a] \in Seq(Nat)
    BY <1>2, NextTaken
  <2>. HIDE DEF a, r
  <2>3. Len(Append(taken[s][a], r)) = r
    BY <2>2, AppendProperties
  <2>4. \A x, y \in Slaves :
          taken'[x][y] = IF x = s /\ y = a THEN Append(taken[s][a], r) ELSE taken[x][y]
    BY <2>1, <2>2
  <2>. QED
    BY <2>1, <2>2, <2>3, <2>4 DEF LagInv
<1>3. CASE \/ MasterStep \/ SendFails \/ Damage \/ Noise \/ UNCHANGED vars
           \/ \E s \in Slaves : \/ SlaveOpens(s) \/ SlaveStops(s)
                                \/ SlaveStep(s) /\ ~SlaveDecrypts(s)
  <2>1. UNCHANGED <<taken, sent>>
    BY <1>3 DEF MasterStep, Send, MasterTimesOut, RejectReply, TakeReply, SendFails,
         Damage, Noise, SlaveOpens, SlaveStep, SlaveStops, SlaveReads, SlaveRejects,
         SlaveMisdecrypts, SlaveExecutes, SlaveCannotReply, SlaveReplies,
         SlaveBuildsReply, Dropped, history, vars
  <2>. QED
    BY <2>1 DEF LagInv
<1>. QED
  BY <1>1, <1>2, <1>3 DEF Next, SlaveStep

\* A station that has decrypted a request works on the last one it took, which is
\* later than any it has replied to (secure_frame_verify_and_decrypt).
LEMMA EarnedDecrypts ==
  ASSUME TypeOK, StepInv, WorkInv, ReplyInv, PastInv, SuccessIsEarned,
         NEW s \in Slaves, SlaveDecrypts(s)
  PROVE  WorkInv' /\ ReplyInv' /\ PastInv' /\ SuccessIsEarned'
<1>. DEFINE a == sframe[s].addr
            r == sframe[s].req
<1>1. /\ spc[s] = "got" /\ AddressedTo(sframe[s], s)
      /\ taken' = [taken EXCEPT ![s][a] = Append(@, r)]
      /\ spc' = [spc EXCEPT ![s] = "verified"]
      /\ UNCHANGED <<mrx, sframe, applied, confirmed>>
  BY DEF SlaveDecrypts, SlaveAdmits, master
<1>2. /\ a \in Slaves /\ r \in Nat /\ r = Len(taken[s][a]) + 1
      /\ taken[s][a] \in Seq(Nat)
  BY NextTaken
<1>3. Serves(s, a)
  BY <1>1 DEF AddressedTo, Serves
<1>. HIDE DEF a, r
<1>4. \A x, y \in Slaves :
        taken'[x][y] = IF x = s /\ y = a THEN Append(taken[s][a], r) ELSE taken[x][y]
  BY <1>1, <1>2 DEF TypeOK
<1>5. Len(Append(taken[s][a], r)) = r
  BY <1>2, AppendProperties
<1>6. \A x \in Slaves : spc'[x] = IF x = s THEN "verified" ELSE spc[x]
  BY <1>1 DEF TypeOK
<1>7. \A x, y \in Slaves, n \in Nat : Past(x, y, n) => Past(x, y, n)'
  <2>1. TAKE x, y \in Slaves, n \in Nat
  <2>2. HAVE Past(x, y, n)
  <2>3. Len(taken[x][y]) \in Nat
    BY WorkTypes
  <2>4. CASE x = s /\ y = a
    <3>1. Len(taken'[x][y]) = r
      BY <1>4, <1>5, <2>4
    <3>2. n < r
      BY <1>2, <2>1, <2>2, <2>3, <2>4 DEF Past
    <3>. QED
      BY <1>1, <1>2, <2>1, <2>4, <3>1, <3>2 DEF Past, r
  <2>5. CASE x = s /\ y # a
    BY <1>1, <1>4, <2>2, <2>5 DEF Past, a
  <2>6. CASE x # s
    BY <1>1, <1>4, <1>6, <2>2, <2>6 DEF Past, Working
  <2>. QED
    BY <2>4, <2>5, <2>6
<1>8. WorkInv'
  <2>1. SUFFICES ASSUME NEW x \in Slaves, Working(x)'
                 PROVE  LET f == sframe[x]
                        IN /\ Serves(x, f.addr) /\ f.req = Len(taken'[x][f.addr])
                           /\ spc'[x] # "verified" => Executed(x, f.addr, f.req)
    BY <1>1 DEF WorkInv, Executed, Serves
  <2>2. CASE x = s
    BY <1>2, <1>3, <1>4, <1>5, <1>6, <2>2 DEF a, r
  <2>3. CASE x # s
    <3>1. Working(x) /\ spc'[x] = spc[x]
      BY <1>6, <2>1, <2>3 DEF Working
    <3>2. sframe[x].addr \in Slaves
      BY <3>1, WorkTypes
    <3>. QED
      BY <1>4, <2>3, <3>1, <3>2 DEF WorkInv
  <2>. QED
    BY <2>2, <2>3
<1>9. ReplyInv'
  <2>1. SUFFICES ASSUME Reply(mrx)
                 PROVE  \E x \in Slaves : /\ Serves(x, mrx.addr) /\ Executed(x, mrx.addr, mrx.req)
                                          /\ Past(x, mrx.addr, mrx.req)'
    BY <1>1 DEF ReplyInv, Executed, Serves, Past, Reply, Working
  <2>2. mrx.addr \in Slaves /\ mrx.req \in Nat
    BY <2>1, WorkTypes
  <2>. QED
    BY <1>1, <1>7, <2>1, <2>2 DEF ReplyInv
<1>10. PastInv'
  <2>1. SUFFICES ASSUME NEW c \in confirmed
                 PROVE  /\ \A x \in Slaves : Serves(x, c.addr) => Past(x, c.addr, c.rep)'
                        /\ Reply(mrx) /\ mrx.addr = c.addr => c.rep < mrx.req
    BY <1>1 DEF PastInv, Serves, Past, Reply, Working
  <2>2. c.addr \in Slaves /\ c.rep \in Nat
    BY DEF TypeOK
  <2>. QED
    BY <1>7, <2>2 DEF PastInv
<1>11. SuccessIsEarned'
  BY <1>1 DEF SuccessIsEarned
<1>. QED
  BY <1>8, <1>9, <1>10, <1>11

\* A request that was executed is one its reply can be for (modbus_build_response).
LEMMA EarnedExecutes ==
  ASSUME TypeOK, WorkInv, ReplyInv, PastInv, SuccessIsEarned, NEW s \in Slaves, SlaveExecutes(s)
  PROVE  WorkInv' /\ ReplyInv' /\ PastInv' /\ SuccessIsEarned'
<1>. DEFINE a == sframe[s].addr
            r == sframe[s].req
<1>1. /\ spc[s] = "verified"
      /\ applied' = [applied EXCEPT ![s][a] = Append(@, r)]
      /\ spc' = [spc EXCEPT ![s] = "executed"]
      /\ UNCHANGED <<mrx, sframe, taken, confirmed>>
  BY DEF SlaveExecutes, ToExecute, master
<1>2. a \in Slaves /\ r \in Nat /\ applied[s][a] \in Seq(Nat)
  BY SMTT(30), <1>1, WorkTypes DEF Working, TypeOK
<1>. HIDE DEF a, r
<1>3. \A x, y \in Slaves :
        applied'[x][y] = IF x = s /\ y = a THEN Append(applied[s][a], r) ELSE applied[x][y]
  BY <1>1, <1>2 DEF TypeOK
<1>4. \A i \in DOMAIN applied[s][a] :
        i \in DOMAIN Append(applied[s][a], r) /\ Append(applied[s][a], r)[i] = applied[s][a][i]
  BY <1>2, AppendProperties, LenProperties
<1>5. \E i \in DOMAIN Append(applied[s][a], r) : Append(applied[s][a], r)[i] = r
  <2>. DEFINE log == applied[s][a]
              new == Append(log, r)
  <2>1. log \in Seq(Nat) /\ new \in Seq(Nat) /\ Len(new) = Len(log) + 1 /\ new[Len(log) + 1] = r
    BY <1>2, AppendProperties
  <2>. HIDE DEF log, new
  <2>2. DOMAIN new = 1 .. Len(new) /\ Len(log) \in Nat
    BY <2>1, LenProperties
  <2>3. Len(log) + 1 \in DOMAIN new
    BY <2>1, <2>2
  <2>. QED
    BY <2>1, <2>3 DEF new, log
<1>6. \A x, y \in Slaves, n \in Nat : Executed(x, y, n) => Executed(x, y, n)'
  BY <1>3, <1>4 DEF Executed
<1>7. \E i \in DOMAIN applied'[s][a] : applied'[s][a][i] = r
  <2>1. applied'[s][a] = Append(applied[s][a], r)
    BY <1>2, <1>3
  <2>. QED
    BY <1>5, <2>1
<1>8. \A x \in Slaves : spc'[x] = IF x = s THEN "executed" ELSE spc[x]
  BY <1>1 DEF TypeOK
<1>9. \A x \in Slaves : Working(x)' <=> Working(x)
  BY <1>1, <1>8 DEF Working
<1>10. \A x, y \in Slaves, n \in Nat : Past(x, y, n)' <=> Past(x, y, n)
  BY <1>1, <1>9 DEF Past
<1>11. WorkInv'
  <2>1. SUFFICES ASSUME NEW x \in Slaves, Working(x)
                 PROVE  LET f == sframe[x]
                        IN /\ Serves(x, f.addr) /\ f.req = Len(taken[x][f.addr])
                           /\ spc'[x] # "verified" => Executed(x, f.addr, f.req)'
    BY <1>1, <1>9 DEF WorkInv, Executed, Serves
  <2>2. sframe[x].addr \in Slaves /\ sframe[x].req \in Nat
    BY <2>1, WorkTypes
  <2>3. Serves(x, sframe[x].addr) /\ sframe[x].req = Len(taken[x][sframe[x].addr])
    BY <2>1 DEF WorkInv
  <2>4. CASE x = s
    BY <1>1, <1>7, <2>3, <2>4 DEF a, r, Executed
  <2>5. CASE x # s
    BY <1>1, <1>6, <1>8, <2>1, <2>2, <2>3, <2>5 DEF WorkInv
  <2>. QED
    BY <2>4, <2>5
<1>12. ReplyInv'
  <2>1. SUFFICES ASSUME Reply(mrx)
                 PROVE  \E x \in Slaves : /\ Serves(x, mrx.addr) /\ Executed(x, mrx.addr, mrx.req)'
                                          /\ Past(x, mrx.addr, mrx.req)'
    BY <1>1 DEF ReplyInv, Executed, Serves, Past, Reply, Working
  <2>2. mrx.addr \in Slaves /\ mrx.req \in Nat
    BY <2>1, WorkTypes
  <2>. QED
    BY <1>1, <1>6, <1>10, <2>1, <2>2 DEF ReplyInv
<1>13. PastInv'
  <2>1. SUFFICES ASSUME NEW c \in confirmed
                 PROVE  /\ \A x \in Slaves : Serves(x, c.addr) => Past(x, c.addr, c.rep)'
                        /\ Reply(mrx) /\ mrx.addr = c.addr => c.rep < mrx.req
    BY <1>1 DEF PastInv, Serves, Past, Reply, Working
  <2>2. c.addr \in Slaves /\ c.rep \in Nat
    BY DEF TypeOK
  <2>. QED
    BY <1>10, <2>2 DEF PastInv
<1>14. SuccessIsEarned'
  <2>1. SUFFICES ASSUME NEW c \in confirmed
                 PROVE  \E x \in Slaves : Executed(x, c.addr, c.rep)'
    BY <1>1 DEF SuccessIsEarned, Executed
  <2>2. c.addr \in Slaves /\ c.rep \in Nat
    BY DEF TypeOK
  <2>3. PICK x \in Slaves : Executed(x, c.addr, c.rep)
    BY DEF SuccessIsEarned, Executed
  <2>. QED
    BY <1>6, <2>2, <2>3
<1>. QED
  BY <1>11, <1>12, <1>13, <1>14

\* The reply that reaches an open port is to a request the station has executed,
\* the last it took; on top of unread bytes it is nobody's (serial_port_write).
LEMMA EarnedReplies ==
  ASSUME TypeOK, WorkInv, PastInv, NEW s \in Slaves, SlaveReplies(s), Reply(mrx'), mrx' # mrx
  PROVE  ReplyInv' /\ \A c \in confirmed : mrx'.addr = c.addr => c.rep < mrx'.req
<1>1. /\ spc[s] = "replying" /\ mrx' = Joined(mrx, sframe[s])
      /\ UNCHANGED <<taken, applied>>
      /\ spc'[s] \in {"listening", "closed"}
  BY DEF SlaveReplies, Done, history, TypeOK
<1>2. /\ sframe[s] \in Frame /\ sframe[s].addr \in Slaves /\ sframe[s].req \in Nat
      /\ Working(s)
  BY <1>1, WorkTypes DEF Working
<1>3. mrx' = sframe[s]
  BY <1>1, <1>2, JoinedType DEF Reply, TypeOK
<1>4. /\ Serves(s, sframe[s].addr) /\ sframe[s].req = Len(taken[s][sframe[s].addr])
      /\ Executed(s, sframe[s].addr, sframe[s].req)
  BY <1>1, <1>2 DEF WorkInv
<1>5. ReplyInv'
  <2>1. /\ Serves(s, mrx'.addr) /\ Executed(s, mrx'.addr, mrx'.req)
        /\ mrx'.req <= Len(taken[s][mrx'.addr])
    BY <1>2, <1>3, <1>4
  <2>. QED
    BY <1>1, <2>1 DEF ReplyInv, Executed, Past, Serves, Working
<1>6. ASSUME NEW c \in confirmed, mrx'.addr = c.addr
      PROVE  c.rep < mrx'.req
  BY <1>2, <1>3, <1>4, <1>6 DEF PastInv, Past
<1>. QED
  BY <1>5, <1>6

\* A success rests on the reply before the master: an executed request of its
\* slave, no later than the one the master waits with, and later than any that
\* counted before (secure_send_demo.c:36-39).
LEMMA EarnedTakes ==
  ASSUME OneAnswer, TypeOK, EarnedInv, TakeReply
  PROVE  WorkInv' /\ ReplyInv' /\ PastInv' /\ SuccessIsEarned'
<1>. DEFINE a == mrx.addr
            new == [addr |-> a, req |-> mframe.req, rep |-> mrx.req]
<1>1. /\ Reply(mrx) /\ mpc # "idle" /\ a = mframe.addr /\ <<a, S2M>> \in Keys
      /\ mrx' = NoFrame /\ UNCHANGED <<spc, sframe, taken, applied>>
      /\ confirmed' \subseteq confirmed \cup {new}
  BY DEF TakeReply, MasterAdmits, HasKey, Authentic, Reply, EndExchange, slaves
<1>2. a \in Slaves /\ mrx.req \in Nat
  BY <1>1, WorkTypes
<1>3. mframe.req = sent[a] /\ sent[a] \in Nat
  BY <1>1, <1>2 DEF EarnedInv, CurrentInv, TypeOK
<1>4. PICK s \in Slaves : Serves(s, a) /\ Executed(s, a, mrx.req) /\ Past(s, a, mrx.req)
  BY <1>1 DEF EarnedInv, ReplyInv
<1>5. \A x \in Slaves : Serves(x, a) => x = s
  BY <1>1, <1>2, <1>4 DEF OneAnswer
<1>6. mrx.req <= sent[a]
  <2>1. Len(taken[s][a]) <= sent[a] /\ Len(taken[s][a]) \in Nat
    BY <1>2, WorkTypes DEF EarnedInv, LagInv
  <2>. QED
    BY <1>2, <1>3, <1>4, <2>1 DEF Past
<1>7. \A c \in confirmed : c.addr = a => c.rep < mrx.req
  BY <1>1 DEF EarnedInv, PastInv
<1>8. new.addr = a /\ new.req = sent[a] /\ new.rep = mrx.req
  BY <1>3
<1>. HIDE DEF a, new
<1>9. WorkInv'
  BY <1>1 DEF EarnedInv, WorkInv, Working, Serves, Executed
<1>10. ReplyInv'
  BY <1>1 DEF ReplyInv, Reply
<1>11. PastInv'
  <2>1. \A x, y \in Slaves, n \in Nat : Past(x, y, n)' <=> Past(x, y, n)
    BY <1>1 DEF Past, Working
  <2>2. SUFFICES ASSUME NEW c \in confirmed', NEW x \in Slaves, Serves(x, c.addr)
                 PROVE  Past(x, c.addr, c.rep)'
    BY <1>1 DEF PastInv, Serves, Past, Reply, Working
  <2>3. CASE c \in confirmed
    <3>1. c.addr \in Slaves /\ c.rep \in Nat
      BY <2>3 DEF TypeOK
    <3>. QED
      BY <2>1, <2>2, <2>3, <3>1 DEF EarnedInv, PastInv
  <2>4. CASE c = new
    BY <1>2, <1>4, <1>5, <1>8, <2>1, <2>2, <2>4
  <2>. QED
    BY <1>1, <2>3, <2>4
<1>12. SuccessIsEarned'
  <2>1. \A c \in confirmed : c.rep \in Nat
    BY DEF TypeOK
  <2>2. ASSUME NEW c \in confirmed'
        PROVE  /\ c.rep <= c.req
               /\ \E x \in Slaves : Executed(x, c.addr, c.rep)
    BY <1>1, <1>4, <1>6, <1>8, <2>2 DEF EarnedInv, SuccessIsEarned, Executed
  <2>3. ASSUME NEW c \in confirmed', NEW d \in confirmed', d.addr = c.addr, d.rep = c.rep
        PROVE  d = c
    BY <1>1, <1>2, <1>7, <1>8, <2>1, <2>3 DEF EarnedInv, SuccessIsEarned
  <2>. QED
    BY <1>1, <2>2, <2>3 DEF SuccessIsEarned, Executed
<1>. QED
  BY <1>9, <1>10, <1>11, <1>12

\* Only a station's reply comes to be a reply before the master.
LEMMA ReplyArrives ==
  ASSUME TypeOK, MadeInv, [Next]_vars, \A s \in Slaves : ~SlaveReplies(s)
  PROVE  Reply(mrx') => mrx' = mrx
<1>1. CASE Damage \/ Noise
  BY <1>1, LineFrames DEF Reply
<1>2. CASE ~(Damage \/ Noise)
  BY <1>2 DEF Next, Build, MasterStep, Send, MasterTimesOut, RejectReply, TakeReply, SendFails,
       EndExchange, SlaveOpens, SlaveStep, SlaveStops, SlaveReads, SlaveRejects,
       SlaveMisdecrypts, SlaveDecrypts, SlaveExecutes, SlaveCannotReply,
       SlaveBuildsReply, Dropped, Reply, master, vars
<1>. QED
  BY <1>1, <1>2

\* Every step keeps the successes earned.
LEMMA EarnedStep ==
  OneAnswer /\ TypeOK /\ StepInv /\ EarnedInv /\ [Next]_vars => EarnedInv'
<1>. SUFFICES ASSUME OneAnswer, TypeOK, StepInv, EarnedInv, [Next]_vars
              PROVE  EarnedInv'
  OBVIOUS
<1>. DEFINE Kept == WorkInv /\ ReplyInv /\ PastInv /\ SuccessIsEarned
<1>1. Kept
  BY DEF EarnedInv
<1>2. ASSUME TakeReply
      PROVE  Kept'
  BY <1>2, EarnedTakes
<1>3. ASSUME NEW s \in Slaves, SlaveDecrypts(s)
      PROVE  Kept'
  BY <1>1, <1>3, EarnedDecrypts
<1>4. ASSUME NEW s \in Slaves, SlaveExecutes(s)
      PROVE  Kept'
  BY <1>1, <1>4, EarnedExecutes
<1>5. ASSUME ~TakeReply, \A s \in Slaves : ~(SlaveDecrypts(s) \/ SlaveExecutes(s))
      PROVE  Kept'
  <2>1. SameWork
    BY <1>5, QuietActions
  <2>2. \/ Reply(mrx') => mrx' = mrx
        \/ ReplyInv' /\ \A c \in confirmed : mrx'.addr = c.addr => c.rep < mrx'.req
    BY <1>1, ReplyArrives, EarnedReplies DEF StepInv
  <2>. QED
    BY <1>1, <2>1, <2>2, QuietStep
<1>6. CurrentInv' /\ LagInv'
  BY CurrentStep, LagStep DEF EarnedInv
<1>. QED
  BY <1>2, <1>3, <1>4, <1>5, <1>6 DEF EarnedInv

\* A success the master reports rests on a request its slave has executed, no
\* later than the one reported, and no reply counts for two, for every set of
\* stations of which one at most answers an address, every fault and any number of
\* requests (secure_send_demo.c:36-39).
THEOREM SuccessesEarned == OneAnswer => (Spec => []SuccessIsEarned)
<1>. SUFFICES ASSUME OneAnswer
              PROVE  Spec => []SuccessIsEarned
  OBVIOUS
<1>1. Init => EarnedInv
  BY DEF Init, EarnedInv, SuccessIsEarned, CurrentInv, LagInv, WorkInv, ReplyInv, PastInv,
         Working, Reply, NoFrame
<1>2. EarnedInv => SuccessIsEarned
  BY DEF EarnedInv
<1>3. TypeOK /\ StepInv /\ EarnedInv /\ [Next]_vars => EarnedInv'
  BY EarnedStep
<1>. QED
  BY <1>1, <1>2, <1>3, TypeCorrect, StepInvCorrect, PTL DEF Spec

-----------------------------------------------------------------------------
(* A success is a round trip *)

\* The address of a request or a reply is one of the bus's.
LEMMA FrameHasAddr ==
  ASSUME NEW f \in Frame \cup {NoFrame}, Request(f) \/ Reply(f)
  PROVE  f \in Frame /\ f.addr \in Slaves /\ f.req \in Nat
<1>1. f \in Frame
  BY DEF Request, Reply
<1>. QED
  BY <1>1, FrameFields

\* A request asks whoever serves its address; a frame on top of an unread one, or
\* one a station made, asks nobody.
LEMMA AskedByLine ==
  ASSUME TypeOK, MadeInv, [Next]_vars, NEW s \in Slaves, Queued(s)'
  PROVE  \/ Queued(s) /\ rx'[s] = rx[s]
         \/ /\ mpc = "built" /\ mpc' = "waiting" /\ mrx' = NoFrame
            /\ rx'[s] = mframe /\ mframe' = mframe
<1>1. rx \in [Slaves -> Frame \cup {NoFrame}] /\ spc'[s] # "closed" /\ Request(rx'[s])
  BY DEF TypeOK, Queued, Asks
<1>2. rx'[s] # NoFrame
  BY <1>1 DEF Request
<1>3. CASE rx'[s] = rx[s]
  <2>1. spc[s] # "closed"
    <3>1. ASSUME NEW x \in Slaves, SlaveOpens(x) \/ SlaveStops(x)
          PROVE  spc[s] # "closed"
      BY <1>1, <1>2, <1>3, <3>1 DEF SlaveOpens, SlaveStops, TypeOK
    <3>2. ASSUME NEW x \in Slaves, SlaveStep(x)
          PROVE  spc[s] # "closed"
      BY <1>1, <3>2 DEF SlaveStep, SlaveReads, SlaveRejects, SlaveMisdecrypts, SlaveDecrypts,
           SlaveExecutes, SlaveCannotReply, SlaveReplies, SlaveBuildsReply, Dropped, Done,
           ToExecute, ToReply, TypeOK
    <3>3. CASE ~\E x \in Slaves : SlaveOpens(x) \/ SlaveStops(x) \/ SlaveStep(x)
      <4>1. spc' = spc
        BY <3>3 DEF Next, Build, MasterStep, Send, MasterTimesOut, RejectReply, TakeReply,
             SendFails, Damage, Noise, slaves, vars
      <4>. QED
        BY <1>1, <4>1
    <3>. QED
      BY <3>1, <3>2, <3>3
  <2>. QED
    BY <1>3, <2>1 DEF Queued, Asks, Serves
<1>4. ASSUME rx'[s] # rx[s]
      PROVE  /\ mpc = "built" /\ mpc' = "waiting" /\ mrx' = NoFrame
             /\ rx'[s] = mframe /\ mframe' = mframe
  <2>1. CASE Send
    <3>1. mframe \in Frame /\ rx[s] \in Frame \cup {NoFrame}
      BY <2>1 DEF Send, TypeOK
    <3>2. rx'[s] = Joined(rx[s], mframe)
      BY <1>4, <2>1, HearBuffers DEF Send
    <3>3. rx'[s] = mframe
      BY <1>1, <3>1, <3>2, JoinedType DEF Request
    <3>. QED
      BY <2>1, <3>3 DEF Send
  <2>2. ASSUME NEW x \in Slaves, SlaveReplies(x)
        PROVE  FALSE
    <3>1. sframe[x] \in Frame /\ sframe[x].dir = S2M /\ rx[s] \in Frame \cup {NoFrame}
      BY <2>2 DEF SlaveReplies, MadeInv, TypeOK
    <3>2. rx'[s] = Joined(rx[s], sframe[x])
      BY <1>4, <2>2, HearBuffers DEF SlaveReplies
    <3>3. rx'[s] = sframe[x]
      BY <1>1, <3>1, <3>2, JoinedType DEF Request
    <3>. QED
      BY <1>1, <3>1, <3>3, DirFacts DEF Request
  <2>3. CASE Damage \/ Noise
    BY <1>1, <1>4, <2>3, LineFrames DEF Request
  <2>4. ASSUME NEW x \in Slaves,
               SlaveOpens(x) \/ SlaveReads(x) \/ SlaveRejects(x) \/ SlaveMisdecrypts(x)
        PROVE  FALSE
    BY <1>1, <1>2, <1>4, <2>4 DEF SlaveOpens, SlaveReads, SlaveRejects, SlaveMisdecrypts, Dropped
  <2>5. ASSUME NEW x \in Slaves,
               \/ SlaveDecrypts(x) \/ SlaveExecutes(x) \/ SlaveCannotReply(x) \/ SlaveStops(x)
               \/ \E b \in Blocks : SlaveBuildsReply(x, b)
        PROVE  FALSE
    BY <1>4, <2>5 DEF SlaveDecrypts, SlaveExecutes, SlaveCannotReply, SlaveStops, SlaveBuildsReply
  <2>6. CASE \/ \E a \in Slaves, b \in Blocks : Build(a, b)
             \/ MasterTimesOut \/ RejectReply \/ TakeReply \/ SendFails \/ UNCHANGED vars
    BY <1>4, <2>6 DEF Build, MasterTimesOut, RejectReply, TakeReply, SendFails, slaves, vars
  <2>. QED
    BY <2>1, <2>2, <2>3, <2>4, <2>5, <2>6 DEF Next, MasterStep, SlaveStep
<1>. QED
  BY <1>3, <1>4

\* What a station is busy with is what it was busy with, or a request it has read.
LEMMA BusyWith ==
  ASSUME TypeOK, [Next]_vars, NEW s \in Slaves, Busy(s)'
  PROVE  \/ /\ Busy(s)
            /\ sframe'[s].addr = sframe[s].addr /\ sframe'[s].req = sframe[s].req
         \/ /\ Queued(s) /\ sframe'[s] = rx[s] /\ rx'[s] = NoFrame /\ mpc' = mpc
            /\ mframe' = mframe /\ mrx' = mrx /\ spc'[s] = "got"
<1>1. ASSUME NEW b \in Blocks, SlaveBuildsReply(s, b)
      PROVE  Busy(s) /\ sframe'[s].addr = sframe[s].addr /\ sframe'[s].req = sframe[s].req
  <2>1. /\ spc[s] = "executed"
        /\ sframe' = [sframe EXCEPT ![s] = [sframe[s] EXCEPT !.dir = S2M, !.blocks = b,
                                              !.pos = sctr[s][sframe[s].addr][S2M]]]
    BY <1>1 DEF SlaveBuildsReply, ToReply
  <2>2. sframe[s] \in Frame
    BY <2>1 DEF TypeOK
  <2>3. sframe'[s].addr = sframe[s].addr /\ sframe'[s].req = sframe[s].req
    BY <2>1, <2>2 DEF TypeOK, Frame
  <2>. QED
    BY <2>1, <2>3 DEF Busy, Working
<1>2. CASE SlaveReads(s)
  <2>1. /\ spc[s] = "listening" /\ sframe'[s] = rx[s] /\ rx'[s] = NoFrame /\ spc'[s] = "got"
        /\ mpc' = mpc /\ mframe' = mframe /\ mrx' = mrx
    BY <1>2 DEF SlaveReads, TypeOK, master
  <2>2. Asks(s, rx[s])
    BY <2>1 DEF Busy, Working, Asks, Serves
  <2>. QED
    BY <2>1, <2>2 DEF Queued
<1>3. CASE SlaveDecrypts(s)
  BY <1>3, FrameFields DEF SlaveDecrypts, SlaveAdmits, Authentic, AddressedTo, Busy, Asks, Serves,
     Request, TypeOK
<1>4. CASE SlaveExecutes(s)
  BY <1>4 DEF SlaveExecutes, ToExecute, Busy, Working
<1>5. CASE \/ SlaveOpens(s) \/ SlaveStops(s) \/ SlaveRejects(s) \/ SlaveMisdecrypts(s)
           \/ SlaveCannotReply(s) \/ SlaveReplies(s)
  <2>1. spc'[s] \in {"closed", "listening"}
    BY <1>5 DEF SlaveOpens, SlaveStops, SlaveRejects, SlaveMisdecrypts, SlaveCannotReply,
       SlaveReplies, Dropped, Done, TypeOK
  <2>. QED
    BY <2>1 DEF Busy, Working
<1>6. CASE spc'[s] = spc[s] /\ sframe'[s] = sframe[s]
  BY <1>6 DEF Busy, Working, Asks, Serves
<1>7. ASSUME NEW x \in Slaves, SlaveOpens(x) \/ SlaveStep(x) \/ SlaveStops(x), x # s
      PROVE  spc'[s] = spc[s] /\ sframe'[s] = sframe[s]
  BY <1>7 DEF SlaveOpens, SlaveStep, SlaveStops, SlaveReads, SlaveRejects, SlaveMisdecrypts,
     SlaveDecrypts, SlaveExecutes, SlaveCannotReply, SlaveReplies, SlaveBuildsReply, Dropped,
     Done, TypeOK
<1>8. ASSUME ~\E x \in Slaves : SlaveOpens(x) \/ SlaveStep(x) \/ SlaveStops(x)
      PROVE  spc'[s] = spc[s] /\ sframe'[s] = sframe[s]
  BY <1>8 DEF Next, Build, MasterStep, Send, MasterTimesOut, RejectReply, TakeReply,
     SendFails, Damage, Noise, slaves, vars
<1>. QED
  BY <1>1, <1>2, <1>3, <1>4, <1>5, <1>6, <1>7, <1>8 DEF SlaveStep

\* While anyone has the request to work on, the master waits with it: it gives up
\* only when all are quiet, and takes or rejects only what has come back.
LEMMA MasterWaits ==
  ASSUME "gives_up" \notin Faults, TypeOK, RoundInv, [Next]_vars,
         NEW s \in Slaves, Busy(s) \/ Queued(s), Busy(s)' \/ Queued(s)'
  PROVE  mpc = "waiting" /\ mpc' = "waiting" /\ mframe' = mframe
<1>1. mpc = "waiting" /\ mrx = NoFrame
  BY DEF RoundInv, ThisOne
<1>2. spc[s] # "closed" /\ (spc[s] # "listening" \/ rx[s] # NoFrame)
  BY DEF Busy, Queued, Working, Asks, Request
<1>3. ~MasterTimesOut
  BY <1>2 DEF MasterTimesOut, Expired, Quiet
<1>4. ~RejectReply /\ ~TakeReply
  BY <1>1 DEF RejectReply, TakeReply
<1>5. UNCHANGED <<mpc, mframe>>
  BY <1>1, <1>3, <1>4 DEF Next, Build, MasterStep, Send, SendFails, SlaveOpens, SlaveStep,
     SlaveStops, SlaveReads, SlaveRejects, SlaveMisdecrypts, SlaveDecrypts, SlaveExecutes,
     SlaveCannotReply, SlaveReplies, SlaveBuildsReply, Dropped, Damage, Noise, master, vars
<1>. QED
  BY <1>1, <1>5

\* Without noise, only a reply comes before a master that has nothing to read.
LEMMA OnlyRepliesArrive ==
  ASSUME "noise" \notin Faults, TypeOK, [Next]_vars, mrx = NoFrame, mrx' # NoFrame
  PROVE  \E s \in Slaves : SlaveReplies(s) /\ mpc = "waiting" /\ mrx' = sframe[s]
<1>1. ~Noise /\ ~Damage
  BY DEF Noise, Damage, NoFrame
<1>2. \E s \in Slaves : SlaveReplies(s)
  BY <1>1 DEF Next, Build, MasterStep, Send, MasterTimesOut, RejectReply, TakeReply, SendFails,
     EndExchange, SlaveOpens, SlaveStep, SlaveStops, SlaveReads, SlaveRejects, SlaveMisdecrypts,
     SlaveDecrypts, SlaveExecutes, SlaveCannotReply, SlaveBuildsReply, Dropped, master, vars
<1>. QED
  BY <1>2 DEF SlaveReplies, Joined

\* A station that answers is the only one that was asked, and is done with it.
LEMMA LastBusy ==
  ASSUME OneAnswer, TypeOK, MadeInv, RoundInv, [Next]_vars, NEW x \in Slaves, SlaveReplies(x)
  PROVE  /\ \A s \in Slaves : ~Busy(s)' /\ ~Queued(s)'
         /\ ThisOne(sframe[x])
<1>1. /\ spc[x] = "replying" /\ spc'[x] \in {"closed", "listening"}
  BY DEF SlaveReplies, Done, TypeOK
<1>2. /\ Busy(x) /\ ThisOne(sframe[x]) /\ Serves(x, sframe[x].addr) /\ ~Queued(x)
      /\ <<sframe[x].addr, S2M>> \in Keys
  BY <1>1 DEF Busy, Working, RoundInv, HasKey
<1>3. mpc = "waiting" /\ sframe[x].addr = mframe.addr /\ mframe.addr \in Slaves
  BY <1>2, FrameFields DEF ThisOne, TypeOK
<1>4. ASSUME NEW s \in Slaves, Busy(s)' \/ Queued(s)'
      PROVE  Busy(s) \/ Queued(s)
  BY <1>3, <1>4, BusyWith, AskedByLine
<1>5. \A s \in Slaves : Busy(s) \/ Queued(s) => s = x
  <2>1. \A s \in Slaves : Busy(s) \/ Queued(s) => Serves(s, mframe.addr)
    BY DEF RoundInv, ThisOne, Queued, Asks
  <2>. QED
    BY <1>2, <1>3, <2>1 DEF OneAnswer
<1>6. ~Busy(x)'
  BY <1>1 DEF Busy, Working
<1>7. ~Queued(x)'
  BY <1>2, <1>3, AskedByLine
<1>. QED
  BY <1>2, <1>4, <1>5, <1>6, <1>7

\* A station replies only with a key for it (secure_frame_encrypt_and_build).
LEMMA ReplyKey ==
  ASSUME TypeOK, [Next]_vars, NEW s \in Slaves, spc'[s] = "replying",
         spc[s] = "replying" => HasKey(sframe[s], S2M)
  PROVE  HasKey(sframe[s], S2M)'
<1>1. CASE spc[s] = "replying" /\ sframe'[s] = sframe[s]
  BY <1>1 DEF HasKey
<1>2. ASSUME NEW b \in Blocks, SlaveBuildsReply(s, b)
      PROVE  HasKey(sframe[s], S2M)'
  <2>1. /\ sframe' = [sframe EXCEPT ![s] = [sframe[s] EXCEPT !.dir = S2M, !.blocks = b,
                                              !.pos = sctr[s][sframe[s].addr][S2M]]]
        /\ HasKey(sframe[s], S2M) /\ sframe[s] \in Frame
    BY <1>2 DEF SlaveBuildsReply, ToReply, TypeOK
  <2>2. sframe'[s].addr = sframe[s].addr
    BY <2>1 DEF TypeOK, Frame
  <2>. QED
    BY <2>1, <2>2 DEF HasKey
<1>3. ASSUME NEW x \in Slaves,
             \/ SlaveOpens(x) \/ SlaveStops(x) \/ SlaveReads(x) \/ SlaveRejects(x)
             \/ SlaveMisdecrypts(x) \/ SlaveDecrypts(x)
      PROVE  spc[s] = "replying" /\ sframe'[s] = sframe[s]
  BY <1>3 DEF SlaveOpens, SlaveStops, SlaveReads, SlaveRejects, SlaveMisdecrypts,
     SlaveDecrypts, Dropped, Done, TypeOK
<1>4. ASSUME NEW x \in Slaves,
             \/ SlaveExecutes(x) \/ SlaveCannotReply(x) \/ SlaveReplies(x)
             \/ x # s /\ \E b \in Blocks : SlaveBuildsReply(x, b)
      PROVE  spc[s] = "replying" /\ sframe'[s] = sframe[s]
  BY <1>4 DEF SlaveExecutes, SlaveCannotReply, SlaveReplies, SlaveBuildsReply, Done, TypeOK
<1>5. CASE \/ \E a \in Slaves, b \in Blocks : Build(a, b)
           \/ MasterStep \/ SendFails \/ Damage \/ Noise \/ UNCHANGED vars
  <2>1. UNCHANGED <<spc, sframe>>
    BY <1>5 DEF Build, MasterStep, Send, MasterTimesOut, RejectReply, TakeReply, SendFails,
       Damage, Noise, slaves, vars
  <2>. QED
    BY <1>1, <2>1
<1>. QED
  BY <1>1, <1>2, <1>3, <1>4, <1>5 DEF Next, SlaveStep

\* Every step keeps what is in work the request the master waits with.
LEMMA RoundStep ==
  ASSUME OneAnswer, "gives_up" \notin Faults, "noise" \notin Faults
  PROVE  TypeOK /\ MadeInv /\ RoundInv /\ [Next]_vars => RoundInv'
<1>. SUFFICES ASSUME TypeOK, MadeInv, RoundInv, [Next]_vars
              PROVE  RoundInv'
  OBVIOUS
<1>1. ASSUME NEW s \in Slaves, Busy(s)'
      PROVE  ThisOne(sframe[s])' /\ Serves(s, sframe'[s].addr) /\ ~Queued(s)'
  <2>1. CASE /\ Busy(s)
             /\ sframe'[s].addr = sframe[s].addr /\ sframe'[s].req = sframe[s].req
    <3>1. mpc = "waiting" /\ mpc' = "waiting" /\ mframe' = mframe
      BY <1>1, <2>1, MasterWaits
    <3>2. ThisOne(sframe[s]) /\ Serves(s, sframe[s].addr) /\ ~Queued(s)
      BY <2>1 DEF RoundInv
    <3>3. ~Queued(s)'
      BY <3>1, <3>2, AskedByLine
    <3>. QED
      BY <2>1, <3>1, <3>2, <3>3 DEF ThisOne
  <2>2. CASE /\ Queued(s) /\ sframe'[s] = rx[s] /\ rx'[s] = NoFrame /\ mpc' = mpc
             /\ mframe' = mframe
    <3>1. ThisOne(rx[s]) /\ Serves(s, rx[s].addr)
      BY <2>2 DEF RoundInv, Queued, Asks
    <3>2. ~Queued(s)'
      BY <2>2 DEF Queued, Asks, Request
    <3>. QED
      BY <2>2, <3>1, <3>2 DEF ThisOne
  <2>. QED
    BY <1>1, <2>1, <2>2, BusyWith
<1>2. ASSUME NEW s \in Slaves, Queued(s)'
      PROVE  ThisOne(rx[s])'
  <2>1. CASE Queued(s) /\ rx'[s] = rx[s]
    BY <1>2, <2>1, MasterWaits DEF RoundInv, ThisOne
  <2>2. CASE mpc' = "waiting" /\ rx'[s] = mframe /\ mframe' = mframe
    BY <2>2 DEF ThisOne
  <2>. QED
    BY <1>2, <2>1, <2>2, AskedByLine
<1>3. ASSUME NEW s \in Slaves, spc'[s] = "replying"
      PROVE  HasKey(sframe[s], S2M)'
  BY <1>3, ReplyKey DEF RoundInv
<1>4. ASSUME Reply(mrx')
      PROVE  ThisOne(mrx)'
  <2>1. CASE mrx' = mrx
    <3>1. ThisOne(mrx) /\ mrx # NoFrame
      BY <1>4, <2>1 DEF RoundInv, Reply
    <3>2. UNCHANGED <<mpc, mframe>>
      BY <2>1, <3>1 DEF ThisOne, Next, Build, MasterStep, Send, MasterTimesOut, RejectReply,
         TakeReply, EndExchange, SendFails, SlaveOpens, SlaveStep, SlaveStops, SlaveReads,
         SlaveRejects, SlaveMisdecrypts, SlaveDecrypts, SlaveExecutes, SlaveCannotReply,
         SlaveReplies, SlaveBuildsReply, Dropped, Damage, Noise, master, vars
    <3>. QED
      BY <2>1, <3>1, <3>2 DEF ThisOne
  <2>2. ASSUME mrx' # mrx
        PROVE  ThisOne(mrx)'
    <3>1. PICK x \in Slaves : SlaveReplies(x)
      BY <1>4, <2>2, ReplyArrives
    <3>2. ThisOne(sframe[x])
      BY <3>1, LastBusy
    <3>3. sframe[x] \in Frame /\ mrx' = Joined(mrx, sframe[x]) /\ UNCHANGED <<mpc, mframe>>
      BY <2>2, <3>1 DEF SlaveReplies, TypeOK
    <3>4. mrx' = sframe[x]
      BY <1>4, <3>3, JoinedType DEF Reply, TypeOK
    <3>. QED
      BY <3>2, <3>3, <3>4 DEF ThisOne
  <2>. QED
    BY <2>1, <2>2
<1>5. ASSUME mrx' # NoFrame, NEW s \in Slaves
      PROVE  ~Busy(s)' /\ ~Queued(s)'
  <2>1. CASE mrx # NoFrame
    <3>1. ~Busy(s) /\ ~Queued(s)
      BY <2>1 DEF RoundInv
    <3>. QED
      BY <1>5, <3>1, BusyWith, AskedByLine
  <2>2. CASE mrx = NoFrame
    BY <1>5, <2>2, OnlyRepliesArrive, LastBusy
  <2>. QED
    BY <2>1, <2>2
<1>6. SuccessMeansRoundTrip'
  <2>1. CASE TakeReply
    <3>1. Reply(mrx) /\ confirmed' \subseteq
            confirmed \cup {[addr |-> mrx.addr, req |-> mframe.req, rep |-> mrx.req]}
      BY <2>1 DEF TakeReply, MasterAdmits, Authentic, Reply
    <3>2. mrx.req = mframe.req
      BY <3>1 DEF RoundInv, ThisOne
    <3>. QED
      BY <3>1, <3>2 DEF RoundInv, SuccessMeansRoundTrip
  <2>2. CASE ~TakeReply
    <3>1. confirmed' = confirmed
      BY <2>2 DEF Next, Build, MasterStep, Send, MasterTimesOut, RejectReply, SendFails,
         SlaveOpens, SlaveStep, SlaveStops, SlaveReads, SlaveRejects, SlaveMisdecrypts,
         SlaveDecrypts, SlaveExecutes, SlaveCannotReply, SlaveReplies, SlaveBuildsReply,
         Dropped, Damage, Noise, history, vars
    <3>. QED
      BY <3>1 DEF RoundInv, SuccessMeansRoundTrip
  <2>. QED
    BY <2>1, <2>2
<1>. QED
  BY <1>1, <1>2, <1>3, <1>4, <1>5, <1>6 DEF RoundInv

\* The reply that makes a request a success is the reply to that request, for
\* every set of stations of which one at most answers an address, when no station
\* is slower than the master's 30 s and no read of the master ends on bytes that
\* are no frame: frames may be lost or damaged, stations may stop and writes may
\* fail (secure_send_demo.c:36-39).
THEOREM SuccessesAreRoundTrips ==
  OneAnswer /\ "gives_up" \notin Faults /\ "noise" \notin Faults
    => (Spec => []SuccessMeansRoundTrip)
<1>. SUFFICES ASSUME OneAnswer, "gives_up" \notin Faults, "noise" \notin Faults
              PROVE  Spec => []SuccessMeansRoundTrip
  OBVIOUS
<1>1. Init => RoundInv
  BY DEF Init, RoundInv, SuccessMeansRoundTrip, Busy, Queued, Working, Asks, Request, Reply
<1>2. RoundInv => SuccessMeansRoundTrip
  BY DEF RoundInv
<1>3. StepInv => MadeInv
  BY DEF StepInv
<1>4. TypeOK /\ MadeInv /\ RoundInv /\ [Next]_vars => RoundInv'
  BY RoundStep
<1>. QED
  BY <1>1, <1>2, <1>3, <1>4, TypeCorrect, StepInvCorrect, PTL DEF Spec

-----------------------------------------------------------------------------
(* The two ends stay in step *)

\* Without faults nothing is damaged or fails, and no station stops.
LEMMA Faultless ==
  ASSUME Faults = {}
  PROVE  ~Damage /\ ~Noise /\ ~SendFails /\ \A s \in Slaves : ~SlaveStops(s)
BY DEF Damage, Noise, SendFails, SlaveStops

\* A station works only on frames of an address it serves, the master on requests
\* it has a key for.
LEMMA KeysStep ==
  ASSUME TypeOK, TablesInv, [Next]_vars
  PROVE  /\ mpc' # "idle" => Request(mframe)' /\ HasKey(mframe, M2S)'
         /\ \A s \in Slaves : Working(s)' => Serves(s, sframe'[s].addr)
         /\ \A s \in Slaves : spc'[s] = "replying" => HasKey(sframe[s], S2M)'
<1>1. mpc' # "idle" => Request(mframe)' /\ HasKey(mframe, M2S)'
  <2>1. ASSUME NEW a \in Slaves, NEW b \in Blocks, Build(a, b)
        PROVE  Request(mframe)' /\ HasKey(mframe, M2S)'
    BY <2>1 DEF Build, Request, HasKey, NoFrame
  <2>2. CASE MasterTimesOut \/ RejectReply \/ TakeReply \/ SendFails
    BY <2>2 DEF MasterTimesOut, RejectReply, TakeReply, SendFails, EndExchange
  <2>3. CASE \/ Send \/ Damage \/ Noise \/ UNCHANGED vars
             \/ \E s \in Slaves : SlaveOpens(s) \/ SlaveStep(s) \/ SlaveStops(s)
    <3>1. mframe' = mframe /\ (mpc' = mpc \/ mpc # "idle")
      BY <2>3 DEF Send, Damage, Noise, SlaveOpens, SlaveStep, SlaveStops, SlaveReads,
         SlaveRejects, SlaveMisdecrypts, SlaveDecrypts, SlaveExecutes, SlaveCannotReply,
         SlaveReplies, SlaveBuildsReply, Dropped, master, vars
    <3>. QED
      BY <3>1 DEF TablesInv, Request, HasKey
  <2>. QED
    BY <2>1, <2>2, <2>3 DEF Next, MasterStep
<1>2. ASSUME NEW s \in Slaves, Working(s)'
      PROVE  Serves(s, sframe'[s].addr)
  <2>1. Busy(s) /\ sframe'[s].addr = sframe[s].addr
    BY <1>2, BusyWith DEF Busy, Working
  <2>. QED
    BY <2>1 DEF TablesInv, Busy, Asks
<1>3. ASSUME NEW s \in Slaves, spc'[s] = "replying"
      PROVE  HasKey(sframe[s], S2M)'
  BY <1>3, ReplyKey DEF TablesInv
<1>. QED
  BY <1>1, <1>2, <1>3

\* Another station's step leaves this one's frames and tables alone: it has no key
\* to answer with.
LEMMA OtherStation ==
  ASSUME OneAnswer, Faults = {}, TypeOK, TablesInv, NEW s \in AnyAddr, NEW t \in Slaves, t # s,
         SlaveOpens(t) \/ SlaveStep(t)
  PROVE  /\ mpc' = mpc /\ mframe' = mframe /\ mctr' = mctr /\ mrx' = mrx
         /\ spc'[s] = spc[s] /\ sframe'[s] = sframe[s] /\ sctr'[s] = sctr[s] /\ rx'[s] = rx[s]
<1>1. s \in Slaves
  BY SecureLinkAssumption
<1>2. ~SlaveReplies(t)
  <2>1. SUFFICES ASSUME spc[t] = "replying"
                 PROVE  FALSE
    BY DEF SlaveReplies
  <2>2. /\ <<sframe[t].addr, S2M>> \in Keys /\ Serves(t, sframe[t].addr)
        /\ sframe[t] \in Frame
    BY <2>1 DEF TablesInv, Working, HasKey, TypeOK
  <2>3. sframe[t].addr \in Slaves /\ Serves(s, sframe[t].addr)
    BY <2>2, FrameFields DEF Serves
  <2>. QED
    BY <1>1, <2>2, <2>3 DEF OneAnswer
<1>3. CASE SlaveOpens(t) \/ SlaveReads(t) \/ SlaveRejects(t) \/ SlaveMisdecrypts(t)
  BY <1>1, <1>3 DEF SlaveOpens, SlaveReads, SlaveRejects, SlaveMisdecrypts, Dropped, Done,
     master, TypeOK
<1>4. CASE SlaveDecrypts(t) \/ SlaveExecutes(t) \/ SlaveCannotReply(t)
  BY <1>1, <1>4 DEF SlaveDecrypts, SlaveExecutes, SlaveCannotReply, Done, master, TypeOK
<1>5. ASSUME NEW b \in Blocks, SlaveBuildsReply(t, b)
      PROVE  /\ mpc' = mpc /\ mframe' = mframe /\ mctr' = mctr /\ mrx' = mrx
             /\ spc'[s] = spc[s] /\ sframe'[s] = sframe[s] /\ sctr'[s] = sctr[s] /\ rx'[s] = rx[s]
  BY <1>1, <1>5 DEF SlaveBuildsReply, master, TypeOK
<1>. QED
  BY <1>2, <1>3, <1>4, <1>5 DEF SlaveStep

\* The master's steps: a request is ahead of the station, a reply brings the
\* master's table up to the station's.
LEMMA TableMaster ==
  ASSUME Faults = {}, TypeOK, TablesInv, NEW s \in AnyAddr,
         MasterStep \/ \E a \in Slaves, b \in Blocks : Build(a, b)
  PROVE  TableInv(s)'
<1>. DEFINE spcs == {"closed", "listening", "got", "verified", "executed", "replying"}
<1>1. s \in Slaves /\ TableInv(s)
  BY SecureLinkAssumption DEF TablesInv
<1>2. ASSUME NEW a \in Slaves, NEW b \in Blocks, Build(a, b)
      PROVE  TableInv(s)'
  <2>1. Resting(s) /\ sctr[s] = mctr
    BY <1>1, <1>2 DEF Build, TableInv
  <2>2. /\ mpc' = "built" /\ mframe'.addr = a /\ mframe'.pos = mctr[a][M2S] /\ mframe'.blocks = b
        /\ mctr' = [mctr EXCEPT ![a][M2S] = @ + b]
        /\ UNCHANGED <<spc, rx, sctr>>
    BY <1>2 DEF Build, slaves
  <2>. QED
    BY <2>1, <2>2 DEF TableInv, Resting, Ahead
<1>3. CASE Send
  <2>1. Resting(s) /\ Ahead(s)
    BY <1>1, <1>3 DEF Send, TableInv
  <2>2. /\ mpc' = "waiting" /\ mrx' = NoFrame /\ Hear({}, mframe)
        /\ UNCHANGED <<mframe, mctr, spc, sframe, sctr>>
    BY <1>3 DEF Send
  <2>3. rx'[s] = mframe
    <3>1. rx' = [x \in Slaves |-> IF x \in {y \in Slaves \ {} : spc[y] # "closed"}
                                  THEN Joined(rx[x], mframe) ELSE rx[x]]
      BY <2>2 DEF Hear
    <3>. QED
      BY <1>1, <2>1, <3>1 DEF Resting, Joined
  <2>. QED
    BY <2>1, <2>2, <2>3 DEF TableInv, Asked, Ahead, Resting
<1>4. CASE MasterTimesOut
  <2>1. /\ mpc = "waiting" /\ Quiet /\ mrx = NoFrame
        /\ mpc' = "idle" /\ UNCHANGED <<mctr, spc, sctr, rx>>
    BY <1>4 DEF MasterTimesOut, Expired, EndExchange, slaves
  <2>2. mframe # NoFrame
    BY <2>1 DEF TypeOK
  <2>3. Resting(s) /\ sctr[s] = mctr
    BY <1>1, <2>1, <2>2 DEF TableInv, Asked, Answering, Answered, Resting, Quiet
  <2>. QED
    BY <2>1, <2>3 DEF TableInv, Resting
<1>5. CASE RejectReply
  <2>1. mpc = "waiting" /\ mrx # NoFrame /\ ~MasterAdmits(mrx)
    BY <1>5 DEF RejectReply
  <2>2. Owed(s, mrx)
    BY <1>1, <2>1 DEF TableInv, Asked, Answering, Answered
  <2>. QED
    BY <2>1, <2>2 DEF Owed, Reply, MasterAdmits, Parses, Authentic
<1>6. CASE TakeReply
  <2>1. /\ mpc = "waiting" /\ mrx # NoFrame /\ mpc' = "idle"
        /\ mctr' = [mctr EXCEPT ![mrx.addr][S2M] = @ + mrx.blocks]
        /\ UNCHANGED <<spc, sctr, rx>>
    BY <1>6 DEF TakeReply, EndExchange, slaves
  <2>2. Owed(s, mrx) /\ Resting(s)
    BY <1>1, <2>1 DEF TableInv, Asked, Answering, Answered
  <2>. QED
    BY <2>1, <2>2 DEF Owed, TableInv, Resting
<1>. QED
  BY <1>2, <1>3, <1>4, <1>5, <1>6 DEF MasterStep

\* The station's steps: it takes the request the master is ahead by, and its reply
\* puts it ahead of the master.
LEMMA TableSlave ==
  ASSUME OneAnswer, Faults = {}, TypeOK, TablesInv, NEW s \in AnyAddr,
         SlaveOpens(s) \/ SlaveStep(s)
  PROVE  TableInv(s)'
<1>1. s \in Slaves /\ TableInv(s)
  BY SecureLinkAssumption DEF TablesInv
<1>2. mpc # "idle" => Request(mframe) /\ HasKey(mframe, M2S)
  BY DEF TablesInv
<1>3. CASE SlaveOpens(s)
  BY <1>1, <1>3 DEF SlaveOpens, TableInv, Resting, Asked, Answering, Answered
<1>4. CASE SlaveReads(s)
  <2>1. /\ spc[s] = "listening" /\ rx[s] # NoFrame
        /\ sframe'[s] = rx[s] /\ rx'[s] = NoFrame /\ spc'[s] = "got"
        /\ UNCHANGED <<mpc, mframe, mctr, mrx, sctr>>
    BY <1>1, <1>4 DEF SlaveReads, master, TypeOK
  <2>2. mpc = "waiting" /\ mrx = NoFrame /\ Ahead(s) /\ rx[s] = mframe
    BY <1>1, <2>1 DEF TableInv, Resting, Asked, Answering, Answered
  <2>. QED
    BY <2>1, <2>2 DEF TableInv, Asked, Ahead
<1>5. ASSUME spc[s] = "got"
      PROVE  /\ mpc = "waiting" /\ mrx = NoFrame /\ Ahead(s) /\ rx[s] = NoFrame
             /\ sframe[s] = mframe /\ SlaveAdmits(s, sframe[s])
             /\ Decrypts(sframe[s], sctr[s][sframe[s].addr][M2S])
  <2>1. /\ mpc = "waiting" /\ mrx = NoFrame /\ Ahead(s) /\ rx[s] = NoFrame
        /\ sframe[s] = mframe
    BY <1>1, <1>5 DEF TableInv, Resting, Asked, Answering, Answered
  <2>. QED
    BY <1>2, <2>1 DEF SlaveAdmits, Parses, AddressedTo, Authentic, Request, Ahead, Decrypts
<1>6. CASE SlaveRejects(s) \/ SlaveMisdecrypts(s)
  BY <1>5, <1>6 DEF SlaveRejects, SlaveMisdecrypts
<1>7. CASE SlaveDecrypts(s)
  <2>1. /\ spc[s] = "got" /\ spc'[s] = "verified"
        /\ sctr'[s] = [sctr[s] EXCEPT ![sframe[s].addr][M2S] = @ + sframe[s].blocks]
        /\ UNCHANGED <<mpc, mframe, mctr, mrx, sframe, rx>>
    BY <1>1, <1>7 DEF SlaveDecrypts, master, TypeOK
  <2>2. mpc = "waiting" /\ mrx = NoFrame /\ Ahead(s) /\ rx[s] = NoFrame /\ sframe[s] = mframe
    BY <1>5, <2>1
  <2>3. sctr'[s] = mctr
    BY <2>1, <2>2 DEF Ahead
  <2>. QED
    BY <1>2, <2>1, <2>2, <2>3 DEF TableInv, Answering, Request
<1>8. CASE SlaveExecutes(s)
  <2>1. /\ spc[s] = "verified" /\ spc'[s] = "executed"
        /\ UNCHANGED <<mpc, mframe, mctr, mrx, sframe, sctr, rx>>
    BY <1>1, <1>8 DEF SlaveExecutes, ToExecute, master, TypeOK
  <2>2. mpc = "waiting" /\ Answering(s)
    BY <1>1, <2>1 DEF TableInv, Resting, Asked, Answered
  <2>. QED
    BY <2>1, <2>2 DEF TableInv, Answering
<1>9. ASSUME spc[s] = "executed"
      PROVE  /\ mpc = "waiting" /\ mrx = NoFrame /\ rx[s] = NoFrame
             /\ sctr[s] = mctr /\ sframe[s].addr = mframe.addr
             /\ sframe[s] \in Frame /\ sframe[s].wire = "intact"
  BY <1>1, <1>9 DEF TableInv, Resting, Asked, Answering, Answered, TypeOK
<1>10. CASE SlaveCannotReply(s)
  <2>1. /\ spc[s] = "executed" /\ spc'[s] = "listening"
        /\ UNCHANGED <<mpc, mframe, mctr, mrx, sctr, rx>>
    BY <1>1, <1>10 DEF SlaveCannotReply, ToReply, Done, master, TypeOK
  <2>. QED
    BY <1>9, <2>1 DEF TableInv, Answered, Resting
<1>11. ASSUME NEW b \in Blocks, SlaveBuildsReply(s, b)
       PROVE  TableInv(s)'
  <2>. DEFINE f == sframe[s]
  <2>1. /\ spc[s] = "executed" /\ spc'[s] = "replying" /\ HasKey(f, S2M)
        /\ sframe'[s] = [f EXCEPT !.dir = S2M, !.blocks = b, !.pos = sctr[s][f.addr][S2M]]
        /\ sctr'[s] = [sctr[s] EXCEPT ![f.addr][S2M] = @ + b]
        /\ UNCHANGED <<mpc, mframe, mctr, mrx, rx>>
    BY <1>1, <1>11 DEF SlaveBuildsReply, ToReply, master, TypeOK
  <2>2. /\ f.wire = "intact" /\ mpc = "waiting" /\ mrx = NoFrame /\ rx[s] = NoFrame
        /\ sctr[s] = mctr /\ f.addr = mframe.addr /\ f \in Frame
    BY <1>9, <2>1
  <2>3. /\ sframe'[s].dir = S2M /\ sframe'[s].blocks = b
        /\ sframe'[s].pos = mctr[f.addr][S2M]
        /\ sframe'[s].addr = f.addr /\ sframe'[s].wire = "intact"
    BY <2>1, <2>2 DEF Frame
  <2>4. sctr'[s] = [mctr EXCEPT ![f.addr][S2M] = @ + b] /\ HasKey(f, S2M)
    BY <2>1, <2>2
  <2>5. mctr' = mctr /\ mframe' = mframe /\ f.addr = mframe.addr
    BY <2>1, <2>2
  <2>. HIDE DEF f
  <2>6. Owed(s, sframe[s])'
    BY <2>3, <2>4, <2>5 DEF Owed, Reply, HasKey, NoFrame
  <2>. QED
    BY <2>1, <2>2, <2>6 DEF TableInv, Answering
<1>12. CASE SlaveReplies(s)
  <2>1. /\ spc[s] = "replying" /\ spc'[s] = "listening" /\ Hear({s}, sframe[s])
        /\ mpc = "waiting" => mrx' = Joined(mrx, sframe[s])
        /\ UNCHANGED <<mpc, mframe, mctr, sctr>>
    BY <1>1, <1>12 DEF SlaveReplies, Done, TypeOK
  <2>2. mpc = "waiting" /\ mrx = NoFrame /\ rx[s] = NoFrame /\ Owed(s, sframe[s])
    BY <1>1, <2>1 DEF TableInv, Resting, Asked, Answering, Answered
  <2>3. rx'[s] = rx[s]
    <3>1. rx' = [x \in Slaves |-> IF x \in {y \in Slaves \ {s} : spc[y] # "closed"}
                                  THEN Joined(rx[x], sframe[s]) ELSE rx[x]]
      BY <2>1 DEF Hear
    <3>. QED
      BY <1>1, <3>1
  <2>4. mrx' = sframe[s] /\ sframe[s] # NoFrame
    BY <1>1, <2>1, <2>2 DEF Joined, TypeOK
  <2>. QED
    BY <2>1, <2>2, <2>3, <2>4 DEF TableInv, Answered, Resting, Owed, Reply, HasKey
<1>. QED
  BY <1>3, <1>4, <1>6, <1>7, <1>8, <1>10, <1>11, <1>12 DEF SlaveStep

\* Every step keeps the tables in step.
LEMMA TablesStep ==
  ASSUME OneAnswer, Faults = {}
  PROVE  TypeOK /\ TablesInv /\ [Next]_vars => TablesInv'
<1>. SUFFICES ASSUME TypeOK, TablesInv, [Next]_vars, NEW s \in AnyAddr
              PROVE  TableInv(s)'
  BY KeysStep DEF TablesInv
<1>1. s \in Slaves /\ TableInv(s)
  BY SecureLinkAssumption DEF TablesInv
<1>2. ASSUME NEW t \in Slaves, SlaveOpens(t) \/ SlaveStep(t)
      PROVE  TableInv(s)'
  <2>1. CASE t = s
    BY <1>2, <2>1, TableSlave
  <2>2. CASE t # s
    <3>1. /\ mpc' = mpc /\ mframe' = mframe /\ mctr' = mctr /\ mrx' = mrx
          /\ spc'[s] = spc[s] /\ sframe'[s] = sframe[s] /\ sctr'[s] = sctr[s] /\ rx'[s] = rx[s]
      BY <1>2, <2>2, OtherStation
    <3>. QED
      BY <1>1, <3>1 DEF TableInv, Asked, Answering, Answered, Resting, Ahead, Owed, Reply, HasKey
  <2>. QED
    BY <2>1, <2>2
<1>3. CASE MasterStep \/ \E a \in Slaves, b \in Blocks : Build(a, b)
  BY <1>3, TableMaster
<1>4. CASE UNCHANGED vars
  BY <1>1, <1>4 DEF vars, master, slaves, TableInv, Asked, Answering, Answered, Resting, Ahead,
     Owed, Reply, HasKey
<1>. QED
  BY <1>2, <1>3, <1>4, Faultless DEF Next

\* On a bus that loses nothing, a station that takes frames of any address agrees
\* with the master on every counter between exchanges, for every set of stations
\* of which one at most answers an address, every set of keys and frame lengths and
\* any number of requests (secure_frame.c:105 and 168).
THEOREM TablesAgree == OneAnswer /\ Faults = {} => (Spec => []CountersInStep)
<1>. SUFFICES ASSUME OneAnswer, Faults = {}
              PROVE  Spec => []CountersInStep
  OBVIOUS
<1>1. Init => TablesInv
  <2>1. SUFFICES ASSUME Init
                 PROVE  TablesInv
    OBVIOUS
  <2>2. \A s \in AnyAddr : TableInv(s)
    BY <2>1, SecureLinkAssumption DEF Init, TableInv, Resting
  <2>. QED
    BY <2>1, <2>2 DEF Init, TablesInv, Working
<1>2. TablesInv => CountersInStep
  BY DEF TablesInv, TableInv, CountersInStep
<1>3. TypeOK /\ TablesInv /\ [Next]_vars => TablesInv'
  BY TablesStep
<1>. QED
  BY <1>1, <1>2, <1>3, TypeCorrect, PTL DEF Spec
=============================================================================
