---------------------------- MODULE PipelineProofs -----------------------------
(***************************************************************************)
(* That what is on disk about a node is backed by the packets that were    *)
(* stored (CountsBacked), that what is published is what may be            *)
(* (PublishedAsAllowed), that a cleanup deletes what was too many when it  *)
(* counted and nothing else (CleanupKeepsMax), and the types, for all      *)
(* frames, bounds, failures and restarts.                                  *)
(***************************************************************************)
EXTENDS Pipeline, SequenceTheorems, FiniteSetTheorems,
        WellFoundedInduction, TLAPS

-----------------------------------------------------------------------------
(* What the decoders do with the source of a frame.                        *)

\* Every frame the sources hand over names one of the nodes.
LEMMA FrameSource == \A f \in DOMAIN Frame : Frame[f].src \in Nodes
  BY DEF Frame, Air, Event, Nodes

\* The decoders keep the source, or have no packet.
LEMMA DecodeSource ==
    ASSUME NEW f, f.src \in Nodes, NEW ks
    PROVE  Decode(f, ks).src \in Nodes
<1>1. NoPacket.src \in Nodes
  BY DEF NoPacket, Nodes
<1>2. ASSUME NEW proto, NEW meaning, NEW cipher, NEW noise
      PROVE  Packet(f, proto, meaning, cipher, noise).src = f.src
  BY DEF Packet
<1>3. MeshtasticDecode(f, ks).src \in Nodes
  BY <1>1, <1>2 DEF MeshtasticDecode
<1>4. MeshcoreDecode(f).src \in Nodes
  BY <1>1, <1>2 DEF MeshcoreDecode
<1>5. Route(f, ks).src \in Nodes
  BY <1>3, <1>4 DEF Route
<1>6. AdaptEvent(f).src \in Nodes
  <2>1. CASE Built(f).type = "none"
    BY <2>1, <1>1 DEF AdaptEvent
  <2>2. CASE Built(f).type # "none"
    <3>1. AdaptEvent(f) = [Packet(f, "meshcore", Built(f), FALSE, FALSE)
                             EXCEPT !.early = f.body = "contact_message"]
      BY <2>2, Zenon DEF AdaptEvent
    <3> QED
      BY <3>1 DEF Packet
  <2> QED
    BY <2>1, <2>2
<1> QED
  BY <1>5, <1>6 DEF Decode

-----------------------------------------------------------------------------
(* The invariant.                                                          *)

Tables == [packets : Seq(Nodes), count : [Nodes -> Int],
           located : SUBSET Nodes, telemetry : Nat, ever : [Nodes -> Nat]]

Types == /\ db \in Tables /\ disk \in Tables
         /\ cur.src \in Nodes
         /\ queue \in Seq(Captures)
         /\ cleaner.excess \in Nat
         /\ DOMAIN cleaner = {"at", "excess", "grown"}

\* A node has counted fewer packets than were stored of it: its first one
\* makes the row, which starts at 0.
Backed(t) == \A n \in Nodes : t.count[n] < t.ever[n]

\* Between the insertion of a packet and the statement that counts it, there
\* is one more to count.
OneToCount == stage \in {"insert_commit", "node"} =>
                  db.count[cur.src] + 1 < db.ever[cur.src]

IInv == Types /\ Backed(db) /\ Backed(disk) /\ OneToCount

-----------------------------------------------------------------------------
(* The operators on the tables.                                            *)

\* An insertion gives its node one more packet to count.
LEMMA InsertedBacked ==
    ASSUME NEW t \in Tables, NEW p, p.src \in Nodes, Backed(t)
    PROVE  /\ Inserted(t, p) \in Tables
           /\ Backed(Inserted(t, p))
           /\ Inserted(t, p).count[p.src] + 1 < Inserted(t, p).ever[p.src]
<1> DEFINE pk == IF p.early THEN <<p.src>> \o t.packets
                 ELSE Append(t.packets, p.src)
           ev == [t.ever EXCEPT ![p.src] = @ + 1]
<1>1. Inserted(t, p) = [t EXCEPT !.packets = pk, !.ever = ev]
  BY DEF Inserted, Tables
<1>2. pk \in Seq(Nodes)
  BY DEF Tables
<1>3. ev \in [Nodes -> Nat]
  BY DEF Tables
<1>4. \A n \in Nodes : ev[n] = IF n = p.src THEN t.ever[n] + 1 ELSE t.ever[n]
  BY DEF Tables
<1> HIDE DEF pk, ev
<1>5. Inserted(t, p) \in Tables
  BY <1>1, <1>2, <1>3 DEF Tables
<1>6. Inserted(t, p).count = t.count /\ Inserted(t, p).ever = ev
  BY <1>1 DEF Tables
<1>7. \A n \in Nodes : t.count[n] \in Int /\ t.ever[n] \in Nat
  BY DEF Tables
<1> QED
  BY <1>4, <1>5, <1>6, <1>7 DEF Backed

\* The row of p.src is the only one to change, by at most one.
LEMMA NodeWrittenBacked ==
    ASSUME NEW t \in Tables, NEW p, p.src \in Nodes, Backed(t),
           t.count[p.src] + 1 < t.ever[p.src]
    PROVE  /\ NodeWritten(t, p) \in Tables
           /\ Backed(NodeWritten(t, p))
<1>1. PICK c \in [Nodes -> Int], l \in SUBSET Nodes :
         /\ NodeWritten(t, p) = [t EXCEPT !.count = c, !.located = l]
         /\ \A n \in Nodes : c[n] <= IF n = p.src THEN t.count[n] + 1
                                     ELSE t.count[n]
  <2>1. CASE NodeUpdate(p) = "none"
    <3> DEFINE c == [t.count EXCEPT ![p.src] = IF @ = -1 THEN @ ELSE @ + 1]
    <3>1. c \in [Nodes -> Int]
      BY DEF Tables
    <3>2. NodeWritten(t, p) = [t EXCEPT !.count = c, !.located = t.located]
      BY <2>1 DEF NodeWritten, Tables
    <3>3. \A n \in Nodes : c[n] <= IF n = p.src THEN t.count[n] + 1
                                   ELSE t.count[n]
      BY DEF Tables
    <3>4. t.located \in SUBSET Nodes
      BY DEF Tables
    <3> HIDE DEF c
    <3> QED
      BY <3>1, <3>2, <3>3, <3>4
  <2>2. CASE NodeUpdate(p) # "none"
    <3> DEFINE c == [t.count EXCEPT ![p.src] = @ + 1]
               l == IF NodeUpdate(p) = "located" THEN t.located \cup {p.src}
                    ELSE t.located
    <3>1. c \in [Nodes -> Int]
      BY DEF Tables
    <3>2. NodeWritten(t, p) = [t EXCEPT !.count = c, !.located = l]
      BY <2>2 DEF NodeWritten, Tables
    <3>3. \A n \in Nodes : c[n] <= IF n = p.src THEN t.count[n] + 1
                                   ELSE t.count[n]
      BY DEF Tables
    <3>4. l \in SUBSET Nodes
      BY DEF Tables
    <3> HIDE DEF c, l
    <3> QED
      BY <3>1, <3>2, <3>3, <3>4
  <2> QED
    BY <2>1, <2>2
<1>2. NodeWritten(t, p) \in Tables
  BY <1>1 DEF Tables
<1>3. NodeWritten(t, p).count = c /\ NodeWritten(t, p).ever = t.ever
  BY <1>1 DEF Tables
<1>4. \A n \in Nodes : t.count[n] \in Int /\ t.ever[n] \in Nat /\ c[n] \in Int
  BY DEF Tables
<1> QED
  BY <1>1, <1>2, <1>3, <1>4 DEF Backed

\* The other statements leave the counts alone.
LEMMA OthersBacked ==
    ASSUME NEW t \in Tables, Backed(t), NEW p, NEW k \in Nat
    PROVE  /\ TelemetryWritten(t, p) \in Tables
           /\ Backed(TelemetryWritten(t, p))
           /\ WithoutOldest(t, k) \in Tables
           /\ WithoutOldest(t, k).count = t.count
           /\ WithoutOldest(t, k).ever = t.ever
<1>1. TelemetryWritten(t, p) \in Tables
  <2>1. t.telemetry + 1 \in Nat
    BY DEF Tables
  <2> DEFINE n == t.telemetry + 1
  <2>2. TelemetryWritten(t, p) = [t EXCEPT !.telemetry = n]
    BY DEF TelemetryWritten
  <2> HIDE DEF n
  <2>3. n \in Nat
    BY <2>1 DEF n
  <2> QED
    BY <2>2, <2>3 DEF Tables
<1>2. /\ TelemetryWritten(t, p).count = t.count
      /\ TelemetryWritten(t, p).ever = t.ever
  BY DEF TelemetryWritten, Tables
<1>3. SubSeq(t.packets, k + 1, Len(t.packets)) \in Seq(Nodes)
  BY DEF Tables
<1>4. /\ WithoutOldest(t, k) \in Tables
      /\ WithoutOldest(t, k).count = t.count
      /\ WithoutOldest(t, k).ever = t.ever
  BY <1>3 DEF WithoutOldest, Tables
<1> QED
  BY <1>1, <1>2, <1>4 DEF Backed

-----------------------------------------------------------------------------
(* The invariant holds.                                                    *)

\* Nothing is stored or in hand when the service first starts.
LEMMA InitInv == Init => IInv
<1> SUFFICES ASSUME Init PROVE IInv
  OBVIOUS
<1>1. EmptyTables \in Tables /\ Backed(EmptyTables)
  BY DEF EmptyTables, Tables, Backed
<1>2. NoPacket.src \in Nodes
  BY DEF NoPacket, Nodes
<1>3. cleaner.excess \in Nat /\ DOMAIN cleaner = {"at", "excess", "grown"}
  BY DEF Init, Asleep
<1>4. queue \in Seq(Captures) /\ stage = "idle"
  BY DEF Init
<1> QED
  BY <1>1, <1>2, <1>3, <1>4 DEF Init, IInv, Types, OneToCount

\* Every action keeps the invariant.
LEMMA NextInv == IInv /\ [Next]_vars => IInv'
<1> SUFFICES ASSUME IInv, [Next]_vars PROVE IInv'
  OBVIOUS
<1> USE DEF IInv
<1>0. NoPacket.src \in Nodes
  BY DEF NoPacket, Nodes
<1>1. ASSUME NEW f \in Captures, Capture(f) PROVE IInv'
  <2>1. queue' \in Seq(Captures)
    BY <1>1 DEF Capture, Queued, Types
  <2> QED
    BY <1>1, <2>1 DEF Capture, Types, Backed, OneToCount
<1>2. CASE Begin
  <2>1. Head(queue) \in Captures /\ Tail(queue) \in Seq(Captures)
    BY <1>2 DEF Begin, Types
  <2>2. Frame[Head(queue)].src \in Nodes
    BY <2>1, FrameSource, PipelineAssumption DEF PipelineAssumption
  <2>3. cur'.src \in Nodes
    BY <2>2, <1>2, DecodeSource DEF Begin
  <2>4. stage' \in {"idle", "insert"}
    BY <1>2 DEF Begin
  <2> QED
    BY <1>2, <2>1, <2>3, <2>4 DEF Begin, Types, Backed, OneToCount
<1>3. CASE Execute
  <2>1. cur' = cur /\ disk' = disk /\ queue' = queue
    BY <1>3 DEF Execute
  <2>2. /\ cleaner'.excess \in Nat
        /\ DOMAIN cleaner' = {"at", "excess", "grown"}
    BY <1>3 DEF Execute, Types
  <2>3. stage \in {"insert", "node", "telemetry"}
    BY <1>3 DEF Execute, Statement
  <2>4. db' = Statement[stage] /\ stage' = CommitOf[stage]
    BY <1>3 DEF Execute
  <2>5. CASE stage = "insert"
    <3>1. db' = Inserted(db, cur) /\ stage' = "insert_commit"
      BY <2>4, <2>5 DEF Statement, CommitOf
    <3>2. /\ db' \in Tables /\ Backed(db')
          /\ db'.count[cur.src] + 1 < db'.ever[cur.src]
      BY <3>1, InsertedBacked DEF Types
    <3> QED
      BY <2>1, <2>2, <3>1, <3>2 DEF Types, Backed, OneToCount
  <2>6. CASE stage = "node"
    <3>1. db' = NodeWritten(db, cur) /\ stage' = "node_commit"
      BY <2>4, <2>6 DEF Statement, CommitOf
    <3>2. db' \in Tables /\ Backed(db')
      BY <3>1, <2>6, NodeWrittenBacked DEF Types, OneToCount
    <3> QED
      BY <2>1, <2>2, <3>1, <3>2 DEF Types, Backed, OneToCount
  <2>7. CASE stage = "telemetry"
    <3>1. db' = TelemetryWritten(db, cur) /\ stage' = "telemetry_commit"
      BY <2>4, <2>7 DEF Statement, CommitOf
    <3>2. db' \in Tables /\ Backed(db')
      BY <3>1, OthersBacked DEF Types
    <3> QED
      BY <2>1, <2>2, <3>1, <3>2 DEF Types, Backed, OneToCount
  <2> QED
    BY <2>3, <2>5, <2>6, <2>7
<1>4. CASE Commit
  <2>1. stage \in {"insert_commit", "node_commit", "telemetry_commit"}
    BY <1>4 DEF Commit, AfterCommit
  <2>2. stage' \in {"insert_commit", "node"} => stage = "insert_commit"
    BY <1>4, <2>1 DEF Commit, AfterCommit
  <2> QED
    BY <1>4, <2>2 DEF Commit, Types, Backed, OneToCount
<1>5. CASE StoreFails
  BY <1>5 DEF StoreFails, AfterFailure, Types, Backed, OneToCount
<1>6. CASE Await
  BY <1>6 DEF Await, Types, Backed, OneToCount
<1>7. CASE Finish
  BY <1>7, <1>0 DEF Finish, Types, Backed, OneToCount
<1>8. CASE CleanupCount
  <2>1. Len(db.packets) \in Nat /\ MaxRetained \in Nat
    BY PipelineAssumption DEF PipelineAssumption, Types, Tables
  <2>2. Excess \in Nat
    BY <1>8, <2>1 DEF CleanupCount, Excess
  <2>3. /\ cleaner'.excess \in Nat
        /\ DOMAIN cleaner' = {"at", "excess", "grown"}
    BY <1>8, <2>2 DEF CleanupCount, Asleep
  <2> QED
    BY <1>8, <2>3 DEF CleanupCount, Types, Backed, OneToCount
<1>9. CASE CleanupDelete
  <2>1. /\ db' \in Tables
        /\ db'.count = db.count /\ db'.ever = db.ever
    BY <1>9, OthersBacked DEF CleanupDelete, Types
  <2>2. /\ cleaner'.excess \in Nat
        /\ DOMAIN cleaner' = {"at", "excess", "grown"}
    BY <1>9 DEF CleanupDelete, Types
  <2> QED
    BY <1>9, <2>1, <2>2 DEF CleanupDelete, Types, Backed, OneToCount
<1>10. CASE CleanupCommit
  <2>1. /\ cleaner'.excess \in Nat
        /\ DOMAIN cleaner' = {"at", "excess", "grown"}
    BY <1>10 DEF CleanupCommit, Asleep
  <2> QED
    BY <1>10, <2>1 DEF CleanupCommit, Types, Backed, OneToCount
<1>11. CASE CleanupFails
  <2>1. /\ cleaner'.excess \in Nat
        /\ DOMAIN cleaner' = {"at", "excess", "grown"}
    BY <1>11 DEF CleanupFails, Asleep
  <2> QED
    BY <1>11, <2>1 DEF CleanupFails, Types, Backed, OneToCount
<1>12. CASE AddChannel
  BY <1>12 DEF AddChannel, Types, Backed, OneToCount
<1>13. CASE Network
  BY <1>13 DEF Network, Types, Backed, OneToCount
<1>14. CASE Ends
  <2>1. /\ cleaner'.excess \in Nat
        /\ DOMAIN cleaner' = {"at", "excess", "grown"}
    BY <1>14 DEF Ends, Asleep
  <2>2. queue' \in Seq(Captures) /\ stage' = "idle"
    BY <1>14 DEF Ends
  <2> QED
    BY <1>14, <1>0, <2>1, <2>2 DEF Ends, Types, Backed, OneToCount
<1>15. CASE Boots
  BY <1>15 DEF Boots, Types, Backed, OneToCount
<1>16. CASE UNCHANGED vars
  BY <1>16 DEF vars, Types, Backed, OneToCount
<1> QED
  BY <1>1, <1>2, <1>3, <1>4, <1>5, <1>6, <1>7, <1>8, <1>9, <1>10, <1>11,
     <1>12, <1>13, <1>14, <1>15, <1>16 DEF Next, PipelineTask

\* On disk, a node never counts a packet that was not stored, for every set of
\* captured frames, every size of the queue and of the table, however many
\* statements fail and wherever the service is restarted (coordinator.py,
\* _store_packet over the connection all repositories share).
THEOREM CountsAreBacked == Spec => []CountsBacked
<1>1. IInv => CountsBacked
  BY DEF IInv, Backed, CountsBacked
<1> QED
  BY <1>1, InitInv, NextInv, PTL DEF Spec
-----------------------------------------------------------------------------
(* What is published.                                                      *)

\* A packet from a decoder: what is still enciphered is not called decrypted.
Decoded(p) == /\ DOMAIN p = DOMAIN NoPacket
              /\ p.cipher => ~p.decrypted

\* What a decoder returns is a packet whose marks agree.
LEMMA DecodeDecoded == ASSUME NEW f, NEW ks PROVE Decoded(Decode(f, ks))
<1>1. Decoded(NoPacket)
  BY DEF Decoded, NoPacket
<1>2. ASSUME NEW proto, NEW meaning, NEW noise
      PROVE  Decoded(Packet(f, proto, meaning, FALSE, noise))
  BY DEF Decoded, Packet, NoPacket
<1>3. ASSUME NEW proto, NEW meaning, NEW noise, NEW cipher, meaning.ok = FALSE
      PROVE  Decoded(Packet(f, proto, meaning, cipher, noise))
  BY <1>3 DEF Decoded, Packet, NoPacket
<1>4. Decoded(MeshtasticDecode(f, ks))
  BY <1>1, <1>2, <1>3 DEF MeshtasticDecode
<1>5. Decoded(MeshcoreDecode(f))
  <2> DEFINE heard == f.noise = "msg_type"
  <2>1. CASE heard
    <3>1. MeshcoreDecode(f) \in
            {NoPacket, Packet(f, "meshcore", TextOf(f.body), FALSE, TRUE)}
      BY <2>1 DEF MeshcoreDecode
    <3> QED  BY <3>1, <1>1, <1>2
  <2>2. CASE ~heard
    <3>1. MeshcoreDecode(f) \in
            {NoPacket, Packet(f, "meshcore", Nothing("UNKNOWN"), TRUE, TRUE)}
      BY <2>2 DEF MeshcoreDecode
    <3>2. Nothing("UNKNOWN").ok = FALSE
      BY DEF Nothing
    <3> QED  BY <3>1, <3>2, <1>1, <1>3
  <2> QED  BY <2>1, <2>2
<1>6. Decoded(Route(f, ks))
  BY <1>4, <1>5 DEF Route
<1>7. Decoded(AdaptEvent(f))
  <2>1. CASE Built(f).type = "none"
    BY <2>1, <1>1 DEF AdaptEvent
  <2>2. CASE Built(f).type # "none"
    <3> DEFINE p == Packet(f, "meshcore", Built(f), FALSE, FALSE)
    <3>1. AdaptEvent(f) = [p EXCEPT !.early = f.body = "contact_message"]
      BY <2>2, Zenon DEF AdaptEvent
    <3>2. DOMAIN p = DOMAIN NoPacket /\ p.cipher = FALSE
      BY DEF Packet, NoPacket
    <3>3. "cipher" \in DOMAIN p
      BY DEF Packet
    <3> HIDE DEF p
    <3> QED  BY <3>1, <3>2, <3>3 DEF Decoded
  <2> QED  BY <2>1, <2>2
<1> QED  BY <1>6, <1>7 DEF Decode

\* Adding the names of the node changes nothing the gates look at.
LEMMA EnrichedKeeps ==
    ASSUME NEW p, Decoded(p)
    PROVE  /\ Enriched(p).cipher = p.cipher
           /\ Enriched(p).proto = p.proto
           /\ Enriched(p).channel = p.channel
           /\ Resolve(Enriched(p)) = Resolve(p)
<1> DEFINE k == p.keys \cup named[p.src] \cup Identity(p)
<1>1. Enriched(p) = [p EXCEPT !.keys = k]
  BY DEF Enriched
<1>2. {"cipher", "proto", "channel"} \subseteq DOMAIN p
  BY DEF Decoded, NoPacket
<1> HIDE DEF k
<1>3. /\ Enriched(p).cipher = p.cipher
      /\ Enriched(p).proto = p.proto
      /\ Enriched(p).channel = p.channel
  BY <1>1, <1>2
<1> QED  BY <1>3 DEF Resolve, NameOf, WithHash, Entered

\* Among places of a sequence there is a last one.
LEMMA LastPlace ==
    ASSUME NEW n \in Nat, NEW S, S \subseteq 1..n, S # {}
    PROVE  Max(S) \in S /\ \A i \in S : i <= Max(S)
<1> DEFINE After(i) == {j \in S : j > i}
           D == {After(i) : i \in S}
<1>1. IsFiniteSet(S)
  <2>1. IsFiniteSet(1..n)
    BY FS_Interval
  <2> QED  BY <2>1, FS_Subset
<1>2. D \subseteq FiniteSubsetsOf(S) /\ D # {}
  <2>1. \A i \in S : After(i) \in SUBSET S
    OBVIOUS
  <2>2. \A i \in S : IsFiniteSet(After(i))
    BY <1>1, <2>1, FS_Subset
  <2> HIDE DEF After
  <2> QED  BY <2>1, <2>2 DEF FiniteSubsetsOf
<1>3. PICK A \in D : \A B \in D : ~ (<<B, A>> \in StrictSubsetOrdering(S))
  <2> HIDE DEF D, FiniteSubsetsOf, StrictSubsetOrdering
  <2> QED  BY <1>2, FS_StrictSubsetOrderingWellFounded, WFMin
<1>4. PICK i \in S : A = After(i)
  OBVIOUS
<1>5. ASSUME NEW j \in S, j > i PROVE FALSE
  <2>1. After(j) \in D /\ After(j) \in SUBSET S /\ A \in SUBSET S
    BY <1>4
  <2>2. After(j) \subseteq A /\ After(j) # A
    <3>1. i \in Int /\ j \in Int /\ S \subseteq Int
      OBVIOUS
    <3>2. j \in A /\ j \notin After(j)
      BY <1>4, <1>5, <3>1
    <3>3. \A k \in After(j) : k \in A
      BY <1>4, <1>5, <3>1
    <3> QED  BY <3>2, <3>3
  <2> QED  BY <1>3, <2>1, <2>2 DEF StrictSubsetOrdering
<1>6. \A j \in S : i >= j
  BY <1>5
<1> QED  BY <1>6 DEF Max

\* The name of a hash that is not 0 is that of the last channel with the hash;
\* it is "ch" and the number only when no channel has it.
LEMMA NameIsLast ==
    ASSUME known \in Seq(Channels), NEW h, h # 0
    PROVE  \/ NameOf(h) = "ch??"
           \/ \E i \in DOMAIN Entered :
                 /\ Entered[i] = NameOf(h) /\ hash[Entered[i]] = h
                 /\ \A j \in DOMAIN Entered : hash[Entered[j]] = h => j <= i
<1>1. CASE WithHash(h) = {}
  BY <1>1 DEF NameOf
<1>2. CASE WithHash(h) # {}
  <2>1. Entered \in Seq(Channels) /\ DOMAIN Entered = 1..Len(Entered)
    BY DEF Entered, Channels, DefaultChannel
  <2>2. WithHash(h) \subseteq 1..Len(Entered) /\ Len(Entered) \in Nat
    BY <2>1 DEF WithHash
  <2>3. /\ Max(WithHash(h)) \in WithHash(h)
        /\ \A j \in WithHash(h) : j <= Max(WithHash(h))
    BY <1>2, <2>2, LastPlace
  <2>4. NameOf(h) = Entered[Max(WithHash(h))]
    BY <1>2 DEF NameOf
  <2> QED  BY <2>3, <2>4 DEF WithHash
<1> QED  BY <1>1, <1>2

\* The gates let nothing through that PublishedAsAllowed forbids.
LEMMA PublishAllowed ==
    ASSUME NEW p, Decoded(p), Publish(p), known \in Seq(Channels)
    PROVE  PublishedAsAllowed'
<1>1. allow' = allow /\ hash' = hash /\ known' = known
  BY DEF Publish
<1>2. CASE sent' = {}
  BY <1>2 DEF PublishedAsAllowed
<1>3. CASE PassesGates(p) /\ sent' = Messages(Enriched(p))
  <2> SUFFICES ASSUME NEW m \in sent'
               PROVE  /\ ~m.packet.cipher
                      /\ ~AllowAll /\ PrivateText(m) =>
                            \/ m.packet.channel \in allow
                            \/ TakenForAllowed(m.packet.channel)
                            \/ StartsWithCh(m.topic)
    BY <1>1 DEF PublishedAsAllowed, AllowAll, TakenForAllowed, Allowed, Entered
  <2>1. m.packet = Enriched(p) /\ m.topic = Resolve(Enriched(p))
    BY <1>3 DEF Messages
  <2>2. /\ m.packet.cipher = p.cipher /\ m.packet.proto = p.proto
        /\ m.packet.channel = p.channel /\ m.topic = Resolve(p)
    BY <2>1, EnrichedKeeps
  <2>3. ~p.cipher
    BY <1>3 DEF PassesGates, Decoded
  <2>4. ASSUME ~AllowAll, p.proto = "meshtastic"
        PROVE  TakenForAllowed(p.channel) \/ p.channel \in allow
                  \/ p.channel = DefaultChannel \/ StartsWithCh(Resolve(p))
    <3> DEFINE h == hash[p.channel]
    <3>1. Resolve(p) = NameOf(h)
      BY <2>4 DEF Resolve
    <3>2. Resolve(p) \in Allowed \/ StartsWithCh(Resolve(p))
      BY <1>3, <2>4 DEF PassesGates
    <3>3. CASE h = 0
      BY <3>3 DEF TakenForAllowed
    <3>4. CASE h # 0 /\ ~StartsWithCh(Resolve(p))
      <4>1. NameOf(h) \in Allowed /\ NameOf(h) # "ch??"
        BY <3>1, <3>2, <3>4 DEF StartsWithCh
      <4>2. PICK i \in DOMAIN Entered :
                /\ Entered[i] = NameOf(h) /\ hash[Entered[i]] = h
                /\ \A j \in DOMAIN Entered : hash[Entered[j]] = h => j <= i
        BY <3>4, <4>1, NameIsLast
      <4>3. CASE Entered[i] = p.channel
        BY <4>1, <4>2, <4>3 DEF Allowed
      <4>4. CASE Entered[i] # p.channel
        <5>1. DOMAIN Entered \subseteq Nat
          BY DEF Entered
        <5>2. \A j \in DOMAIN Entered : Entered[j] = p.channel => j < i
          BY <4>2, <4>4, <5>1
        <5> QED  BY <4>1, <4>2, <5>2 DEF TakenForAllowed
      <4> QED  BY <4>3, <4>4
    <3> QED  BY <3>3, <3>4
  <2> QED  BY <2>2, <2>3, <2>4 DEF PrivateText
<1> QED  BY <1>2, <1>3 DEF Publish

\* The keys there are, and those the resolver was given, are of channels.
KeysKnown == keys \in Seq(Channels) /\ known \in Seq(Channels)

\* The service starts with the keys that are configured.
LEMMA KeysInit == Configured \in Seq(Channels)
  BY DEF Configured, Channels

\* Keys are only ever added, and a start registers those there are.
LEMMA KeysNext == KeysKnown /\ [Next]_vars => KeysKnown'
<1> SUFFICES ASSUME KeysKnown, [Next]_vars PROVE KeysKnown'
  OBVIOUS
<1>1. CASE AddChannel
  <2>1. "Late" \in Channels
    BY DEF Channels
  <2> QED  BY <1>1, <2>1 DEF AddChannel, KeysKnown, mqttVars
<1>2. CASE Boots
  BY <1>2 DEF Boots, Starts, KeysKnown
<1>3. CASE keys' = keys /\ known' = known
  BY <1>3 DEF KeysKnown
<1>4. PipelineTask => keys' = keys /\ known' = known
  BY DEF PipelineTask, Begin, Execute, Commit, StoreFails, Await, Finish, Publish,
         mqttVars
<1>5. CleanupCount \/ CleanupDelete \/ CleanupCommit \/ CleanupFails
        => keys' = keys /\ known' = known
  BY DEF CleanupCount, CleanupDelete, CleanupCommit, CleanupFails, mqttVars
<1>6. Network \/ Ends \/ UNCHANGED vars => keys' = keys /\ known' = known
  BY DEF Network, OnConnect, OnDisconnect, Ends, vars, mqttVars
<1>7. \A f \in Captures : Capture(f) => keys' = keys /\ known' = known
  BY DEF Capture, mqttVars
<1> QED  BY <1>1, <1>2, <1>3, <1>4, <1>5, <1>6, <1>7 DEF Next

PublishInv == Decoded(cur) /\ PublishedAsAllowed

\* Nothing but a packet taken from the queue changes what is in hand, and
\* nothing but Finish publishes.
LEMMA PublishNext == KeysKnown /\ PublishInv /\ [Next]_vars => PublishInv'
<1> SUFFICES ASSUME KeysKnown, PublishInv, [Next]_vars PROVE PublishInv'
  OBVIOUS
<1>1. Decoded(NoPacket)
  BY DEF Decoded, NoPacket
<1>2. ASSUME cur' = cur, sent' = sent, UNCHANGED <<allow, hash, known>>
      PROVE  PublishInv'
  BY <1>2 DEF PublishInv, PublishedAsAllowed, AllowAll, Decoded, TakenForAllowed,
              Allowed, Entered
<1>3. ASSUME Decoded(cur'), sent' = {} PROVE PublishInv'
  BY <1>3 DEF PublishInv, PublishedAsAllowed
<1>4. CASE Begin
  <2>1. Decoded(cur') /\ sent' = {}
    BY <1>4, DecodeDecoded DEF Begin
  <2> QED  BY <2>1, <1>3
<1>5. CASE Finish
  <2>1. cur' = NoPacket /\ PublishedAsAllowed'
    BY <1>5, PublishAllowed DEF Finish, PublishInv, KeysKnown
  <2> QED  BY <2>1, <1>1 DEF PublishInv
<1>6. CASE Ends
  BY <1>6, <1>1, <1>3 DEF Ends
<1>7. CASE Boots
  <2>1. sent' = {} /\ cur' = cur
    BY <1>7 DEF Boots, Starts
  <2>2. Decoded(cur')
    BY <2>1 DEF PublishInv
  <2> QED  BY <2>1, <2>2, <1>3
<1>8. CASE Execute \/ Commit \/ StoreFails \/ Await
  BY <1>8, <1>2 DEF Execute, Commit, StoreFails, Await, mqttVars
<1>9. CASE CleanupCount \/ CleanupDelete \/ CleanupCommit \/ CleanupFails
  BY <1>9, <1>2 DEF CleanupCount, CleanupDelete, CleanupCommit, CleanupFails, mqttVars
<1>10. CASE AddChannel \/ Network
  BY <1>10, <1>2 DEF AddChannel, Network, OnConnect, OnDisconnect, mqttVars
<1>11. ASSUME NEW f \in Captures, Capture(f) PROVE PublishInv'
  BY <1>11, <1>2 DEF Capture, mqttVars
<1>12. CASE UNCHANGED vars
  BY <1>12, <1>2 DEF vars, mqttVars
<1> QED
  BY <1>4, <1>5, <1>6, <1>7, <1>8, <1>9, <1>10, <1>11, <1>12
  DEF Next, PipelineTask

\* Whatever the list of channels, the broker, the hashes of the channels, the
\* keys learned while the service runs and the restarts: nothing enciphered is
\* published, and with a list only what is on it, what is taken for it and what
\* looks unresolved (mqtt_publisher.py, _passes_safety_gates, over
\* channel_resolver.py, resolve, behind the decoders).
THEOREM PublishingKeepsToTheList == Spec => []PublishedAsAllowed
<1>1. Init => PublishInv /\ KeysKnown
  BY KeysInit DEF Init, MqttInit, PublishInv, PublishedAsAllowed, Decoded, NoPacket,
                  KeysKnown
<1>2. PublishInv => PublishedAsAllowed
  BY DEF PublishInv
<1> QED  BY <1>1, <1>2, PublishNext, KeysNext, PTL DEF Spec

\* The publisher by itself keeps to the list as well, whatever packets it is
\* offered and in whatever order it is restarted and channels are learned.
THEOREM PublisherKeepsToTheList == MqttSpec => []PublishedAsAllowed
<1> DEFINE Inv == PublishedAsAllowed /\ known \in Seq(Channels)
<1>1. MqttInit => Inv
  BY KeysInit DEF MqttInit, PublishedAsAllowed
<1>2. Inv /\ [MqttNext]_mqttVars => Inv'
  <2> SUFFICES ASSUME Inv, [MqttNext]_mqttVars PROVE Inv'
    OBVIOUS
  <2>1. ASSUME UNCHANGED <<sent, allow, hash, known>> PROVE Inv'
    BY <2>1 DEF PublishedAsAllowed, AllowAll, TakenForAllowed, Allowed, Entered
  <2>2. CASE OnConnect \/ OnDisconnect \/ UNCHANGED mqttVars
    BY <2>1, <2>2 DEF OnConnect, OnDisconnect, mqttVars
  <2>3. CASE Restart
    <3>1. \A ks \in KeyRings : ks \in Seq(Channels)
      BY KeysInit DEF KeyRings, Channels
    <3> QED  BY <2>3, <3>1 DEF Restart, Starts, PublishedAsAllowed
  <2>4. ASSUME NEW f \in DOMAIN Frame, NEW ks \in KeyRings, Offered(f, ks)
        PROVE  Inv'
    <3>1. Publish(Decode(Frame[f], ks)) /\ known' = known
      BY <2>4 DEF Offered, Publish
    <3> QED  BY <3>1, DecodeDecoded, PublishAllowed
  <2> QED  BY <2>2, <2>3, <2>4 DEF MqttNext
<1> QED  BY <1>1, <1>2, PTL DEF MqttSpec

-----------------------------------------------------------------------------
(* What the cleanup leaves.                                                *)

\* A cleanup that has counted knows how many packets there are: those it will
\* keep, those it will delete and those that came in since.
Accounted ==
    /\ cleaner.grown \in Nat
    /\ cleaner.at = "counted" =>
          Len(db.packets) = MaxRetained + cleaner.excess + cleaner.grown

\* One more packet, whichever end of the table its time puts it.
LEMMA InsertedLength ==
    ASSUME NEW t \in Tables, NEW p, p.src \in Nodes
    PROVE  Len(Inserted(t, p).packets) = Len(t.packets) + 1
<1> DEFINE pk == IF p.early THEN <<p.src>> \o t.packets
                 ELSE Append(t.packets, p.src)
           ev == [t.ever EXCEPT ![p.src] = @ + 1]
<1>1. Inserted(t, p) = [t EXCEPT !.packets = pk, !.ever = ev]
  BY DEF Inserted, Tables
<1>2. Len(pk) = Len(t.packets) + 1
  BY DEF Tables
<1> HIDE DEF pk, ev
<1>3. Inserted(t, p).packets = pk
  BY <1>1 DEF Tables
<1> QED  BY <1>2, <1>3

\* The other statements of the pipeline leave the packets alone.
LEMMA OthersLength ==
    ASSUME NEW t \in Tables, NEW p
    PROVE  /\ NodeWritten(t, p).packets = t.packets
           /\ TelemetryWritten(t, p).packets = t.packets
<1>1. TelemetryWritten(t, p).packets = t.packets
  BY DEF TelemetryWritten, Tables
<1>2. CASE NodeUpdate(p) = "none"
  BY <1>1, <1>2 DEF NodeWritten, Tables
<1>3. CASE NodeUpdate(p) # "none"
  BY <1>1, <1>3 DEF NodeWritten, Tables
<1> QED  BY <1>2, <1>3

\* Deleting the oldest k packets leaves the rest.
LEMMA WithoutOldestLength ==
    ASSUME NEW t \in Tables, NEW k \in Nat, NEW m \in Nat, Len(t.packets) = k + m
    PROVE  Len(WithoutOldest(t, k).packets) = m
<1>1. t.packets \in Seq(Nodes) /\ Len(t.packets) \in Nat
  BY DEF Tables
<1>2. Len(SubSeq(t.packets, k + 1, Len(t.packets))) = m
  BY <1>1
<1>3. WithoutOldest(t, k).packets = SubSeq(t.packets, k + 1, Len(t.packets))
  BY DEF WithoutOldest, Tables
<1> QED  BY <1>2, <1>3

\* What the deletion of a cleanup promises, of one step.
KeepsMax == cleaner.at = "counted" /\ cleaner'.at = "deleted" =>
                Len(db'.packets) = MaxRetained + cleaner.grown

\* Whatever the pipeline stores while a cleanup runs is accounted for.
LEMMA AccountedNext == IInv /\ Accounted /\ [Next]_vars => Accounted' /\ KeepsMax
<1> SUFFICES ASSUME IInv, Accounted, [Next]_vars PROVE Accounted' /\ KeepsMax
  OBVIOUS
<1>0. /\ db \in Tables /\ cur.src \in Nodes /\ Len(db.packets) \in Nat
      /\ cleaner.excess \in Nat /\ cleaner.grown \in Nat /\ MaxRetained \in Nat
      /\ DOMAIN cleaner = {"at", "excess", "grown"}
  BY PipelineAssumption DEF IInv, Types, Tables, Accounted
<1>1. ASSUME db'.packets = db.packets, cleaner' = cleaner
      PROVE  Accounted' /\ KeepsMax
  BY <1>1 DEF Accounted, KeepsMax
<1>2. ASSUME cleaner'.grown = 0, cleaner'.at \in {"asleep", "ended"}
      PROVE  Accounted' /\ KeepsMax
  BY <1>2 DEF Accounted, KeepsMax
<1>3. CASE Execute
  <2>1. /\ db' = Statement[stage] /\ stage \in {"insert", "node", "telemetry"}
        /\ cleaner' = IF stage = "insert" /\ cleaner.at = "counted"
                      THEN [cleaner EXCEPT !.grown = @ + 1] ELSE cleaner
    BY <1>3 DEF Execute, Statement
  <2>2. CASE stage # "insert"
    <3>1. db' \in {NodeWritten(db, cur), TelemetryWritten(db, cur)}
      BY <2>1, <2>2 DEF Statement
    <3>2. db'.packets = db.packets
      BY <3>1, <1>0, OthersLength
    <3> QED  BY <2>1, <2>2, <3>2, <1>1
  <2>3. CASE stage = "insert"
    <3>1. db' = Inserted(db, cur)
      BY <2>1, <2>3 DEF Statement
    <3>2. Len(db'.packets) = Len(db.packets) + 1
      BY <3>1, <1>0, InsertedLength
    <3>3. /\ cleaner'.at = cleaner.at /\ cleaner'.excess = cleaner.excess
          /\ cleaner'.grown = IF cleaner.at = "counted" THEN cleaner.grown + 1
                              ELSE cleaner.grown
      BY <2>1, <2>3, <1>0
    <3> QED  BY <3>2, <3>3, <1>0 DEF Accounted, KeepsMax
  <2> QED  BY <2>2, <2>3
<1>4. CASE CleanupCount
  <2>1. /\ cleaner' = [Asleep EXCEPT !.at = "counted", !.excess = Excess]
        /\ db' = db
    BY <1>4 DEF CleanupCount
  <2>2. /\ cleaner'.at = "counted" /\ cleaner'.grown = 0
        /\ cleaner'.excess = Len(db.packets) - MaxRetained
    BY <2>1 DEF Asleep, Excess
  <2> QED  BY <2>1, <2>2, <1>0 DEF Accounted, KeepsMax
<1>5. CASE CleanupDelete
  <2>1. /\ db' = WithoutOldest(db, cleaner.excess) /\ cleaner.at = "counted"
        /\ cleaner' = [cleaner EXCEPT !.at = "deleted"]
    BY <1>5 DEF CleanupDelete
  <2>2. Len(db.packets) = cleaner.excess + (MaxRetained + cleaner.grown)
    BY <2>1, <1>0 DEF Accounted
  <2>3. Len(db'.packets) = MaxRetained + cleaner.grown
    BY <2>1, <2>2, <1>0, WithoutOldestLength
  <2>4. cleaner'.at = "deleted" /\ cleaner'.grown = cleaner.grown
    BY <2>1, <1>0
  <2> QED  BY <2>3, <2>4, <1>0 DEF Accounted, KeepsMax
<1>6. CASE CleanupCommit \/ CleanupFails \/ Ends
  BY <1>6, <1>2 DEF CleanupCommit, CleanupFails, Ends, Asleep
<1>7. CASE Begin \/ Commit \/ StoreFails \/ Await \/ Finish
  BY <1>7, <1>1 DEF Begin, Commit, StoreFails, Await, Finish
<1>8. CASE AddChannel \/ Network \/ Boots
  BY <1>8, <1>1 DEF AddChannel, Network, Boots
<1>9. ASSUME NEW f \in Captures, Capture(f) PROVE Accounted' /\ KeepsMax
  BY <1>9, <1>1 DEF Capture
<1>10. CASE UNCHANGED vars
  BY <1>10, <1>1 DEF vars
<1> QED  BY <1>3, <1>4, <1>5, <1>6, <1>7, <1>8, <1>9, <1>10 DEF Next, PipelineTask

\* Packets stored between the count of a cleanup and its deletion are neither
\* deleted in its place nor make it delete more, for every limit and whatever
\* fails: max_packets_retained and the newcomers are left
\* (packet_repository.py, cleanup_old).
THEOREM CleanupIsExact == Spec => CleanupKeepsMax
<1>1. Init => Accounted
  BY DEF Init, Asleep, Accounted
<1>2. IInv /\ Accounted /\ [Next]_vars => [KeepsMax]_vars
  BY AccountedNext
<1>3. [KeepsMax]_vars => [cleaner.at = "counted" /\ cleaner'.at = "deleted" =>
                            Len(db'.packets) = MaxRetained + cleaner.grown]_vars
  BY DEF KeepsMax
<1>4. IInv /\ Accounted /\ [Next]_vars => Accounted'
  BY AccountedNext
<1> QED  BY <1>1, <1>2, <1>3, <1>4, InitInv, NextInv, PTL DEF Spec, CleanupKeepsMax

-----------------------------------------------------------------------------
(* The types.                                                              *)

\* Every action keeps the types.
LEMMA TypedNext ==
    IInv /\ IInv' /\ KeysKnown /\ PipelineTypeOK /\ [Next]_vars => PipelineTypeOK'
<1> SUFFICES ASSUME IInv, IInv', KeysKnown, PipelineTypeOK, [Next]_vars
             PROVE  PipelineTypeOK'
  OBVIOUS
<1>0. /\ db' \in Tables /\ disk' \in Tables /\ queue \in Seq(Captures)
      /\ queue' \in Seq(Captures) /\ cur.src \in Nodes /\ MaxQueue \in Nat \ {0}
  BY PipelineAssumption DEF IInv, Types
<1>1. db'.count \in [Nodes -> Int] /\ disk'.count \in [Nodes -> Int]
  BY <1>0 DEF Tables
<1> USE <1>0, <1>1
<1>2. ASSUME up' \in BOOLEAN, Len(queue') <= MaxQueue, stage' \in Stages,
             stage' = "idle" <=> cur' = NoPacket,
             cleaner'.at \in {"asleep", "counted", "deleted", "ended"}, MqttTypeOK'
      PROVE  PipelineTypeOK'
  BY <1>2 DEF PipelineTypeOK
<1>3. ASSUME UNCHANGED mqttVars PROVE MqttTypeOK'
  BY <1>3 DEF PipelineTypeOK, MqttTypeOK, mqttVars
<1>4. ASSUME NEW f \in Captures, Capture(f) PROVE PipelineTypeOK'
  <2>1. Len(queue') <= MaxQueue
    BY <1>4 DEF Capture, Queued, PipelineTypeOK
  <2> QED  BY <1>4, <2>1, <1>2, <1>3 DEF Capture, PipelineTypeOK
<1>5. CASE Begin
  <2>1. Len(queue') <= MaxQueue
    BY <1>5 DEF Begin, PipelineTypeOK
  <2>2. MqttTypeOK'
    BY <1>5 DEF Begin, PipelineTypeOK, MqttTypeOK
  <2>3. stage' \in {"idle", "insert"} /\ (stage' = "idle" <=> cur' = NoPacket)
    BY <1>5 DEF Begin
  <2> QED  BY <1>5, <2>1, <2>2, <2>3, <1>2 DEF Begin, PipelineTypeOK, Stages
<1>6. CASE Execute
  <2>1. stage \in {"insert", "node", "telemetry"}
    BY <1>6 DEF Execute, Statement
  <2>2. stage' \in {"insert_commit", "node_commit", "telemetry_commit"}
    BY <1>6, <2>1 DEF Execute, CommitOf
  <2>3. cleaner'.at = cleaner.at
    BY <1>6 DEF Execute, IInv, Types
  <2> QED  BY <1>6, <2>1, <2>2, <2>3, <1>2, <1>3 DEF Execute, PipelineTypeOK, Stages
<1>7. CASE Commit
  <2>1. stage \in {"insert_commit", "node_commit", "telemetry_commit"}
    BY <1>7 DEF Commit, AfterCommit
  <2>2. stage' \in {"node", "telemetry", "relay"}
    BY <1>7, <2>1 DEF Commit, AfterCommit
  <2> QED  BY <1>7, <2>1, <2>2, <1>2, <1>3 DEF Commit, PipelineTypeOK, Stages
<1>8. CASE StoreFails
  <2>1. stage # "idle" /\ stage' = "relay"
    BY <1>8 DEF StoreFails, AfterFailure, Statement, AfterCommit
  <2> QED  BY <1>8, <2>1, <1>2, <1>3 DEF StoreFails, PipelineTypeOK, Stages
<1>9. CASE Await
  BY <1>9, <1>2, <1>3 DEF Await, PipelineTypeOK, Stages
<1>10. CASE Finish
  <2>1. MqttTypeOK'
    <3>1. Publish(cur) /\ MqttTypeOK
      BY <1>10 DEF Finish, PipelineTypeOK
    <3>2. named' \in [Nodes -> SUBSET IdentityKeys]
      BY <3>1 DEF Publish, MqttTypeOK, Identity
    <3>3. ASSUME NEW m \in sent' PROVE m.form \in {"protobuf", "json", "meshcore"}
      <4>1. sent' = Messages(Enriched(cur)) /\ Forms(Enriched(cur)) \subseteq
                                                  {"protobuf", "json", "meshcore"}
        BY <3>1, <3>3 DEF Publish, Forms
      <4> QED  BY <3>3, <4>1 DEF Messages
    <3> QED  BY <3>1, <3>2, <3>3 DEF Publish, MqttTypeOK
  <2> QED  BY <1>10, <2>1, <1>2 DEF Finish, PipelineTypeOK, Stages
<1>11. CASE CleanupCount \/ CleanupDelete \/ CleanupCommit \/ CleanupFails
  <2>1. CASE CleanupDelete
    <3>1. cleaner' = [cleaner EXCEPT !.at = "deleted"] /\ "at" \in DOMAIN cleaner
      BY <2>1 DEF CleanupDelete, IInv, Types
    <3>2. cleaner'.at = "deleted"
      BY <3>1
    <3> QED  BY <2>1, <3>2, <1>2, <1>3 DEF CleanupDelete, PipelineTypeOK
  <2>2. CASE CleanupCount \/ CleanupCommit \/ CleanupFails
    <3>1. /\ Asleep.at = "asleep"
          /\ [Asleep EXCEPT !.at = "ended"].at = "ended"
          /\ [Asleep EXCEPT !.at = "counted", !.excess = Excess].at = "counted"
      BY DEF Asleep
    <3>2. cleaner'.at \in {"counted", "asleep", "ended"}
      BY <2>2, <3>1 DEF CleanupCount, CleanupCommit, CleanupFails
    <3> QED
      BY <2>2, <3>2, <1>2, <1>3 DEF CleanupCount, CleanupCommit, CleanupFails,
                                    PipelineTypeOK
  <2> QED  BY <1>11, <2>1, <2>2
<1>12. CASE AddChannel
  BY <1>12, <1>2, <1>3 DEF AddChannel, PipelineTypeOK
<1>13. CASE Network
  <2>1. MqttTypeOK'
    BY <1>13 DEF Network, OnConnect, OnDisconnect, PipelineTypeOK, MqttTypeOK
  <2> QED  BY <1>13, <2>1, <1>2 DEF Network, PipelineTypeOK
<1>14. CASE Ends
  <2>1. MqttTypeOK'
    BY <1>14 DEF Ends, PipelineTypeOK, MqttTypeOK
  <2>2. /\ up' = FALSE /\ stage' = "idle" /\ cur' = NoPacket
        /\ cleaner'.at = "asleep" /\ queue' = <<>>
    BY <1>14 DEF Ends, Asleep
  <2>3. Len(queue') <= MaxQueue
    BY <2>2
  <2> QED  BY <2>1, <2>2, <2>3, <1>2 DEF Stages
<1>15. CASE Boots
  <2>1. MqttTypeOK'
    <3>1. keys \in Seq(Channels)
      BY DEF KeysKnown
    <3>2. Nobody \in [Nodes -> SUBSET IdentityKeys]
      BY DEF Nobody
    <3>3. /\ conn' \in {"off", "down"} /\ known' = keys
          /\ named' = Nobody /\ sent' = {} /\ UNCHANGED <<hash, allow, mode>>
      BY <1>15 DEF Boots, Starts
    <3> QED  BY <3>1, <3>2, <3>3 DEF PipelineTypeOK, MqttTypeOK
  <2> QED  BY <1>15, <2>1, <1>2 DEF Boots, PipelineTypeOK
<1>16. CASE UNCHANGED vars
  BY <1>16, <1>2, <1>3 DEF vars, mqttVars, PipelineTypeOK
<1> QED
  BY <1>4, <1>5, <1>6, <1>7, <1>8, <1>9, <1>10, <1>11, <1>12, <1>13, <1>14,
     <1>15, <1>16 DEF Next, PipelineTask

\* The types: the queue never holds more than its limit, a packet is in hand
\* exactly while the pipeline is busy with one, and what the publisher knows
\* are channels and names (source.py, the bounded queue; coordinator.py,
\* _process_capture; mqtt_publisher.py).
THEOREM PipelineTypes == Spec => []PipelineTypeOK
<1>1. Init => PipelineTypeOK /\ KeysKnown
  <2> SUFFICES ASSUME Init PROVE PipelineTypeOK /\ KeysKnown
    OBVIOUS
  <2>1. Configured \in Seq(Channels) /\ known = Configured
    BY KeysInit DEF Init, MqttInit
  <2>2. MqttTypeOK
    BY <2>1 DEF Init, MqttInit, MqttTypeOK, Nobody
  <2>3. EmptyTables.count \in [Nodes -> Int]
    BY DEF EmptyTables
  <2>4. /\ up = TRUE /\ queue = <<>> /\ stage = "idle" /\ cur = NoPacket
        /\ db = EmptyTables /\ disk = EmptyTables /\ cleaner.at = "asleep"
        /\ keys = Configured
    BY DEF Init, Asleep
  <2>5. queue \in Seq(Captures) /\ Len(queue) <= MaxQueue
    BY <2>4, PipelineAssumption
  <2> QED  BY <2>1, <2>2, <2>3, <2>4, <2>5 DEF PipelineTypeOK, KeysKnown, Stages
<1> QED  BY <1>1, KeysNext, TypedNext, InitInv, NextInv, PTL DEF Spec
=============================================================================
