----------------------------- MODULE ServiceProofs -----------------------------
(***************************************************************************)
(* Peers, their sockets and what becomes of them: no two live slots hold   *)
(* the same socket, no connection to the database idles while a request    *)
(* waits, a server whose operations do not fail keeps listening, and only  *)
(* the queue forgets a peer.                                               *)
(*                                                                         *)
(* Then what the server promises its clients: a transaction is applied at  *)
(* most once, whatever fails; and with connections that stay up and bodies *)
(* that parse the server implements Service, also across restarts.         *)
(*                                                                         *)
(* All of it for every size of the pools and every set of peers.           *)
(***************************************************************************)
EXTENDS ServerProofs, FiniteSetTheorems

Holds(s, c) == pool[s].client_fd = c
Listener(s) == pool[s].ring /\ pool[s].last_event = "ACCEPTTING"

\* The completions the loop has not seen yet; no two are of the same slot.
Entries == {cq[i] : i \in DOMAIN cq}

\* A completion without error of the operation that event e waits for.
Finished(x, e) == ~ x.failed /\ pool[x.slot].last_event = e
Arrived(x) == Finished(x, "ACCEPTTING")

\* What a slot holds: the listening slot no socket, every other live slot the
\* socket of one peer, which is open until the close of the slot is done.
SlotSockets ==
  \A s \in Slots :
    /\ pool[s].last_event = "ACCEPTTING" => pool[s].client_fd = NULL
    /\ pool[s].last_event # "ACCEPTTING" =>
         /\ pool[s].ring
         /\ pool[s].client_fd \in Clients
         /\ \/ peer[pool[s].client_fd] = "open"
            \/ pool[s].last_event = "CLOSING" /\ peer[pool[s].client_fd] = "closed"

OneHolder == \A s, t \in Slots : pool[s].client_fd # NULL /\ Holds(t, pool[s].client_fd) => s = t

OneListener == \A s, t \in Slots : Listener(s) /\ Listener(t) => s = t

\* The socket of an accepted peer is new: no slot holds it yet.
NewSockets ==
  \A x \in Entries : Arrived(x) =>
    /\ x.fd \in Clients
    /\ peer[x.fd] = "open"
    /\ \A s \in Slots : ~ Holds(s, x.fd)

BacklogOnce ==
  /\ \A i \in DOMAIN backlog : peer[backlog[i]] = "backlog"
  /\ \A i, j \in DOMAIN backlog : backlog[i] = backlog[j] => i = j

\* Nobody is connected to a process that is not there.
DownIsClosed ==
  pc = "down" => /\ \A s \in Slots : pool[s] = Zeroed
                 /\ \A c \in Clients : peer[c] \in {"idle", "closed"}

\* What a slot has read is the request of the peer whose socket it holds.
OwnRequest ==
  /\ \A s \in heap : pool[s].buffer.about = pool[s].client_fd
  /\ \A x \in Entries : Finished(x, "READING")
       => pool[x.slot].buffer.about = pool[x.slot].client_fd

\* A peer with an open connection has been accepted and is not forgotten, and a
\* slot whose close is done holds a closed connection.
Known ==
  /\ \A c \in Clients : peer[c] = "open" =>
       \/ \E s \in Slots : Holds(s, c)
       \/ \E x \in Entries : Arrived(x) /\ x.fd = c
  /\ \A x \in Entries : Finished(x, "CLOSING") => peer[pool[x.slot].client_fd] = "closed"

PeerInv ==
  /\ SlotSockets /\ OneHolder /\ OneListener /\ NewSockets
  /\ BacklogOnce /\ DownIsClosed /\ OwnRequest /\ Known
-----------------------------------------------------------------------------
LEMMA CompletedEntry == \A s : Completed(s) <=> \E x \in Entries : x.slot = s
  BY DEF Completed, Entries

LEMMA EntryTypes ==
  ASSUME TypeInv, NEW x \in Entries
  PROVE  x \in Cqes /\ x.slot \in Slots
<1>1. PICK i \in DOMAIN cq : x = cq[i]
  BY DEF Entries
<1>2. cq[i] \in Cqes
  BY ElementOfSeq, LenProperties DEF TypeInv, RingTypes
<1> QED BY <1>1, <1>2 DEF Cqes

\* The entry of a slot is its only one, and no operation of it is under way.
LEMMA EntryAlone ==
  ASSUME OneOperation, NEW x \in Entries
  PROVE  /\ \A y \in Entries : x.slot = y.slot => x = y
         /\ ~ HasOp(x.slot) /\ pool[x.slot].ring
<1>1. \A y \in Entries : x.slot = y.slot => x = y
  BY DEF Entries, OneOperation
<1>2. Completed(x.slot)
  BY CompletedEntry
<1> QED BY <1>1, <1>2, CompletedRing

\* The loop looks at the head and takes it off.
LEMMA EntriesTail ==
  ASSUME TypeInv, OneOperation, cq # <<>>, cq' = Tail(cq)
  PROVE  Head(cq) \in Entries /\ Entries' = Entries \ {Head(cq)}
<1>1. cq \in Seq(Cqes) /\ Len(cq) \in Nat /\ Len(cq) > 0 /\ DOMAIN cq = 1 .. Len(cq)
  BY EmptySeq, LenProperties DEF TypeInv, RingTypes
<1>2. /\ Len(cq') = Len(cq) - 1 /\ cq' \in Seq(Cqes)
      /\ \A i \in 1 .. Len(cq) - 1 : cq'[i] = cq[i + 1]
      /\ Head(cq) = cq[1]
  BY <1>1, HeadTailProperties
<1>3. DOMAIN cq' = 1 .. Len(cq) - 1
  BY <1>2, LenProperties
<1>4. Head(cq) \in Entries
  BY <1>1, <1>2 DEF Entries
<1>5. ASSUME NEW x \in Entries'
      PROVE  x \in Entries \ {Head(cq)}
  <2>1. PICK i \in DOMAIN cq' : x = cq'[i]
    BY DEF Entries
  <2>2. i + 1 \in DOMAIN cq /\ 1 \in DOMAIN cq /\ i + 1 # 1 /\ x = cq[i + 1]
    BY <1>1, <1>2, <1>3, <2>1
  <2>3. cq[i + 1] # cq[1]
    BY <2>2 DEF OneOperation
  <2> QED BY <1>2, <2>2, <2>3 DEF Entries
<1>6. ASSUME NEW x \in Entries, x # Head(cq)
      PROVE  x \in Entries'
  <2>1. PICK i \in DOMAIN cq : x = cq[i]
    BY DEF Entries
  <2>2. i # 1 /\ i - 1 \in DOMAIN cq' /\ i - 1 + 1 = i
    BY <1>1, <1>2, <1>3, <1>6, <2>1
  <2>3. cq'[i - 1] = x
    BY <1>2, <1>3, <2>1, <2>2
  <2> QED BY <2>2, <2>3 DEF Entries
<1> QED BY <1>4, <1>5, <1>6

\* The kernel adds an entry.
LEMMA EntriesAppend ==
  ASSUME TypeInv, NEW e \in Cqes, cq' = Append(cq, e)
  PROVE  Entries' = Entries \cup {e}
<1>1. cq \in Seq(Cqes) /\ Len(cq) \in Nat /\ DOMAIN cq = 1 .. Len(cq)
  BY LenProperties DEF TypeInv, RingTypes
<1>2. /\ Len(cq') = Len(cq) + 1
      /\ \A i \in 1 .. Len(cq) : cq'[i] = cq[i]
      /\ cq'[Len(cq) + 1] = e
      /\ cq' \in Seq(Cqes)
  BY <1>1, AppendProperties
<1>3. DOMAIN cq' = 1 .. Len(cq) + 1
  BY <1>2, LenProperties
<1>4. \A i \in DOMAIN cq' : i \in DOMAIN cq \/ i = Len(cq) + 1
  BY <1>1, <1>3
<1>5. \A x \in Entries' : x \in Entries \cup {e}
  BY <1>1, <1>2, <1>4 DEF Entries
<1>6. \A x \in Entries : x \in Entries'
  BY <1>1, <1>2, <1>3 DEF Entries
<1>7. e \in Entries'
  BY <1>1, <1>2, <1>3 DEF Entries
<1> QED BY <1>5, <1>6, <1>7

\* What Seen says of the entry it takes.
LEMMA SeenEntry ==
  ASSUME TypeInv, SlotInv, NEW s \in Slots, NEW e, Seen(s, e)
  PROVE  /\ Head(cq) \in Entries /\ Head(cq).slot = s /\ Finished(Head(cq), e)
         /\ Entries' = Entries \ {Head(cq)}
         /\ \A x \in Entries' : x \in Entries /\ x.slot # s
         /\ \A x \in Entries : x.slot # s => x \in Entries'
         /\ pc = "wait" /\ pc' = "top" /\ pool[s].last_event = e
<1>1. cq # <<>> /\ cq' = Tail(cq) /\ Head(cq).slot = s /\ ~ Head(cq).failed
      /\ pool[s].last_event = e /\ pc = "wait" /\ pc' = "top"
  BY DEF Seen
<1>2. OneOperation
  BY DEF SlotInv
<1>3. Head(cq) \in Entries /\ Entries' = Entries \ {Head(cq)}
  BY <1>1, <1>2, EntriesTail
<1>4. \A x \in Entries : x.slot = s => x = Head(cq)
  BY <1>1, <1>2, <1>3, EntryAlone
<1> QED BY <1>1, <1>3, <1>4 DEF Finished
-----------------------------------------------------------------------------
(***************************************************************************)
(* Sockets.                                                                *)
(***************************************************************************)
LEMMA NoEntries == cq = <<>> => Entries = {}
  BY DEF Entries

LEMMA ZeroedFields ==
  /\ ~ Zeroed.ring /\ Zeroed.last_event = "ACCEPTTING" /\ Zeroed.client_fd = NULL
  /\ Accepting.ring /\ Accepting.last_event = "ACCEPTTING" /\ Accepting.client_fd = NULL
  BY DEF Zeroed, Accepting

\* A process that has just ended, or has not started, holds no socket.
LEMMA NothingHeld ==
  ASSUME \A s \in Slots : pool[s] = Zeroed, cq = <<>>, backlog = <<>>, heap = {},
         \A c \in Clients : peer[c] \in {"idle", "closed"}
  PROVE  PeerInv
<1>1. Entries = {}
  BY NoEntries
<1> USE ZeroedFields
<1>2. SlotSockets /\ OneHolder /\ OneListener
  BY DEF SlotSockets, OneHolder, OneListener, Listener
<1>3. NewSockets /\ OwnRequest /\ Known
  BY <1>1 DEF NewSockets, OwnRequest, Known
<1>4. BacklogOnce /\ DownIsClosed
  BY DEF BacklogOnce, DownIsClosed
<1> QED BY <1>2, <1>3, <1>4 DEF PeerInv

LEMMA PeerInit == Init => PeerInv
<1> SUFFICES ASSUME Init PROVE PeerInv
  OBVIOUS
<1>1. /\ \A s \in Slots : pool[s] = Zeroed
      /\ cq = <<>> /\ backlog = <<>> /\ heap = {}
      /\ \A c \in Clients : peer[c] \in {"idle", "closed"}
  BY DEF Init, Queue!QInit
<1> QED BY <1>1, NothingHeld

LEMMA ExitPeers ==
  ASSUME NEW answered, NEW links, Exit(answered, links)
  PROVE  PeerInv'
<1>1. /\ \A s \in Slots : pool'[s] = Zeroed
      /\ cq' = <<>> /\ backlog' = <<>> /\ heap' = {}
      /\ \A c \in Clients : peer'[c] \in {"idle", "closed"}
  BY DEF Exit
<1>2. Entries' = {}
  BY <1>1 DEF Entries
<1> USE ZeroedFields
<1>3. SlotSockets' /\ OneHolder' /\ OneListener'
  BY <1>1 DEF SlotSockets, OneHolder, OneListener, Listener
<1>4. NewSockets' /\ OwnRequest' /\ Known'
  BY <1>1, <1>2 DEF NewSockets, OwnRequest, Known
<1>5. BacklogOnce' /\ DownIsClosed'
  BY <1>1 DEF BacklogOnce, DownIsClosed
<1> QED BY <1>3, <1>4, <1>5 DEF PeerInv

LEMMA BootPeers ==
  ASSUME TypeInv, SlotInv, PeerInv, Boot
  PROVE  PeerInv'
<1>1. /\ pool' = [pool EXCEPT ![0] = Accepting] /\ 0 \in Slots
      /\ pc' = "top" /\ cq' = <<>> /\ cq = <<>> /\ heap' = {}
      /\ peer' = peer /\ backlog' = backlog
      /\ \A c \in Clients : peer[c] \in {"idle", "closed"}
      /\ \A s \in Slots : pool[s] = Zeroed
  BY SlotsNonEmpty DEF Boot, queueVars, peerVars, SlotInv, DownIsEmpty, PeerInv, DownIsClosed
<1>2. pool'[0] = Accepting /\ \A x \in Slots : x # 0 => pool'[x] = Zeroed
  BY <1>1, OtherSlots
<1>3. Entries' = {}
  BY <1>1 DEF Entries
<1> USE ZeroedFields
<1>4. SlotSockets' /\ OneHolder' /\ OneListener'
  BY <1>2 DEF SlotSockets, OneHolder, OneListener, Listener
<1>5. NewSockets' /\ OwnRequest' /\ Known'
  BY <1>1, <1>3 DEF NewSockets, OwnRequest, Known
<1>6. BacklogOnce' /\ DownIsClosed'
  BY <1>1 DEF PeerInv, BacklogOnce, DownIsClosed
<1> QED BY <1>4, <1>5, <1>6 DEF PeerInv

\* A step that leaves slots, completions and peers alone.
LEMMA PeersKept ==
  ASSUME PeerInv, pool' = pool, Entries' = Entries, heap' \subseteq heap,
         backlog' = backlog, peer' = peer, pc' = "down" => pc = "down"
  PROVE  PeerInv'
<1>1. SlotSockets' /\ OneHolder' /\ OneListener'
  BY DEF PeerInv, SlotSockets, OneHolder, OneListener, Listener, Holds
<1>2. NewSockets' /\ OwnRequest' /\ Known'
  BY DEF PeerInv, NewSockets, OwnRequest, Known, Holds, Arrived, Finished
<1>3. BacklogOnce' /\ DownIsClosed'
  BY DEF PeerInv, BacklogOnce, DownIsClosed
<1> QED BY <1>1, <1>2, <1>3 DEF PeerInv

\* A slot that goes on from one event to another with the socket it has.
LEMMA SlotMoves ==
  ASSUME TypeInv, PeerInv, NEW s \in Slots, NEW r,
         pool' = [pool EXCEPT ![s] = r],
         pool[s].last_event \notin {"ACCEPTTING", "CLOSING"},
         r.ring, r.last_event # "ACCEPTTING", r.client_fd = pool[s].client_fd,
         heap' \subseteq heap \cup {s}, s \in heap' => r.buffer.about = r.client_fd,
         \A x \in Entries' : x \in Entries /\ x.slot # s,
         \A x \in Entries : x.slot # s => x \in Entries',
         backlog' = backlog, peer' = peer, pc' # "down"
  PROVE  PeerInv'
<1> USE DEF PeerInv
<1>1. pool'[s] = r /\ \A x \in Slots : x # s => pool'[x] = pool[x]
  BY OtherSlots
<1>2. \A x \in Entries' : x \in Entries /\ x.slot \in Slots /\ pool'[x.slot] = pool[x.slot]
  BY <1>1, EntryTypes
<1>3. \A x \in Slots : \A c : Holds(x, c)' <=> Holds(x, c)
  BY <1>1 DEF Holds
<1>4. pool[s].client_fd \in Clients /\ peer[pool[s].client_fd] = "open"
  BY DEF SlotSockets
<1>5. SlotSockets'
  BY <1>1, <1>4 DEF SlotSockets
<1>6. OneHolder' /\ OneListener'
  BY <1>1 DEF OneHolder, OneListener, Listener, Holds
<1>7. NewSockets'
  BY <1>2, <1>3 DEF NewSockets, Arrived, Finished
<1>8. BacklogOnce' /\ DownIsClosed'
  BY DEF BacklogOnce, DownIsClosed
<1>9. OwnRequest'
  <2>1. \A x \in heap' : pool'[x].buffer.about = pool'[x].client_fd
    <3> TAKE x \in heap'
    <3>1. CASE x = s
      BY <1>1, <3>1
    <3>2. CASE x # s
      <4>1. x \in heap /\ x \in Slots
        BY <3>2 DEF TypeInv, QueueTypes
      <4> QED BY <1>1, <3>2, <4>1 DEF OwnRequest
    <3> QED BY <3>1, <3>2
  <2> QED BY <1>2, <2>1 DEF OwnRequest, Finished
<1>10. Known'
  <2>1. ASSUME NEW c \in Clients, peer'[c] = "open"
        PROVE  \/ \E x \in Slots : Holds(x, c)'
               \/ \E x \in Entries' : Arrived(x)' /\ x.fd = c
    <3>1. CASE \E x \in Slots : Holds(x, c)
      BY <1>3, <3>1
    <3>2. CASE \E x \in Entries : Arrived(x) /\ x.fd = c
      <4> PICK x \in Entries : Arrived(x) /\ x.fd = c
        BY <3>2
      <4>1. x.slot # s
        BY DEF Arrived, Finished
      <4>2. x \in Entries' /\ Arrived(x)'
        BY <1>2, <4>1 DEF Arrived, Finished
      <4> QED BY <4>2
    <3> QED BY <2>1, <3>1, <3>2 DEF Known
  <2> QED BY <1>2, <2>1 DEF Known, Finished
<1> QED BY <1>5, <1>6, <1>7, <1>8, <1>9, <1>10

\* An accepted peer gets the slot that was listening, and another slot listens.
LEMMA AcceptedPeers ==
  ASSUME TypeInv, SlotInv, PeerInv, OnAccepted
  PROVE  PeerInv'
<1> USE DEF PeerInv
<1>0. PICK s \in Slots, t \in Slots :
      /\ Seen(s, "ACCEPTTING")
      /\ Least(t, FreeSlots)
      /\ pool' = [pool EXCEPT
           ![s] = [@ EXCEPT !.client_fd = Head(cq).fd, !.last_event = "READING"],
           ![t] = Accepting]
  BY DEF OnAccepted
<1> DEFINE h == Head(cq)
           r == [pool[s] EXCEPT !.client_fd = h.fd, !.last_event = "READING"]
<1>1. /\ h \in Entries /\ h.slot = s /\ Arrived(h)
      /\ \A x \in Entries' : x \in Entries /\ x.slot # s
      /\ \A x \in Entries : x.slot # s => x \in Entries'
      /\ pc' = "top" /\ pool[s].last_event = "ACCEPTTING"
  BY <1>0, SeenEntry DEF Arrived
<1>2. /\ heap' = heap /\ backlog' = backlog /\ peer' = peer
      /\ pool' = [[pool EXCEPT ![s] = r] EXCEPT ![t] = Accepting]
  BY <1>0 DEF OnAccepted, queueVars, peerVars
<1>3. pool[s].ring
  BY <1>1, EntryAlone DEF SlotInv
<1>4. /\ ~ pool[t].ring /\ t # s /\ \A x \in Entries : x.slot # t /\ t \notin heap
  BY <1>0, <1>3, EntryAlone DEF Least, FreeSlots, SlotInv, PushedOnce
<1>5. /\ r.ring /\ r.last_event = "READING" /\ r.client_fd = h.fd
  BY <1>3, SlotFields DEF ReqRes
<1>6. /\ h.fd \in Clients /\ peer[h.fd] = "open" /\ \A x \in Slots : pool[x].client_fd # h.fd
      /\ h.fd # NULL
  BY <1>1, NoPeerAssumption DEF NewSockets, Holds
<1> HIDE DEF r
<1>7. /\ pool'[s] = r /\ pool'[t] = Accepting
      /\ \A x \in Slots : x # s /\ x # t => pool'[x] = pool[x]
  BY <1>2, <1>4 DEF TypeInv, ServerTypes
<1>8. \A x \in Entries' : /\ x \in Entries /\ x.slot \in Slots /\ x.slot # s
                          /\ pool'[x.slot] = pool[x.slot]
  BY <1>1, <1>4, <1>7, EntryTypes
<1>9. pool[t].client_fd = NULL
  BY <1>4 DEF SlotSockets
<1> HIDE DEF h
<1>10. SlotSockets'
  <2> SUFFICES ASSUME NEW x \in Slots
               PROVE  /\ pool'[x].last_event = "ACCEPTTING" => pool'[x].client_fd = NULL
                      /\ pool'[x].last_event # "ACCEPTTING" =>
                           /\ pool'[x].ring /\ pool'[x].client_fd \in Clients
                           /\ \/ peer[pool'[x].client_fd] = "open"
                              \/ /\ pool'[x].last_event = "CLOSING"
                                 /\ peer[pool'[x].client_fd] = "closed"
    BY <1>2 DEF SlotSockets
  <2>1. CASE x = s
    BY <1>5, <1>6, <1>7, <2>1
  <2>2. CASE x = t
    BY <1>7, <2>2, ZeroedFields
  <2>3. CASE x # s /\ x # t
    BY <1>7, <2>3 DEF SlotSockets
  <2> QED BY <2>1, <2>2, <2>3
<1>11. OneHolder'
  <2>1. \A x \in Slots : pool'[x].client_fd =
          IF x = s THEN h.fd ELSE IF x = t THEN NULL ELSE pool[x].client_fd
    BY <1>5, <1>7, ZeroedFields
  <2> QED BY <1>6, <2>1 DEF OneHolder, Holds
<1>12. OneListener'
  <2>1. \A x \in Slots : x # s => ~ Listener(x)
    BY <1>1, <1>3 DEF OneListener, Listener
  <2>2. \A x \in Slots : Listener(x)' => x = t
    BY <1>5, <1>7, <2>1 DEF Listener
  <2> QED BY <2>2 DEF OneListener
<1>13. \A x \in Entries' : ~ Arrived(x)'
  <2> TAKE x \in Entries'
  <2>1. ~ (pool[x.slot].ring /\ pool[x.slot].last_event = "ACCEPTTING")
    BY <1>1, <1>3, <1>8 DEF OneListener, Listener
  <2>2. pool[x.slot].ring
    BY <1>8, EntryAlone DEF SlotInv
  <2> QED BY <1>8, <2>1, <2>2 DEF Arrived, Finished
<1>14. NewSockets'
  BY <1>13 DEF NewSockets
<1>15. BacklogOnce' /\ DownIsClosed'
  BY <1>1, <1>2 DEF BacklogOnce, DownIsClosed
<1>16. OwnRequest'
  <2>1. \A x \in heap : x \in Slots /\ x # t /\ x # s
    BY <1>1, <1>4 DEF TypeInv, QueueTypes, SlotInv, PushedOnce
  <2> QED BY <1>2, <1>7, <1>8, <2>1 DEF OwnRequest, Finished
<1>17. Known'
  <2>1. ASSUME NEW c \in Clients, peer'[c] = "open"
        PROVE  \E x \in Slots : Holds(x, c)'
    <3>1. CASE \E x \in Slots : Holds(x, c)
      <4> PICK x \in Slots : pool[x].client_fd = c
        BY <3>1 DEF Holds
      <4>1. x # s /\ x # t
        BY <1>1, <1>9, NoPeerAssumption DEF SlotSockets
      <4> QED BY <1>7, <4>1 DEF Holds
    <3>2. CASE \E x \in Entries : Arrived(x) /\ x.fd = c
      <4> PICK x \in Entries : Arrived(x) /\ x.fd = c
        BY <3>2
      <4>1. x = h
        BY <1>1, <1>3, EntryAlone, EntryTypes DEF OneListener, Listener, Arrived, Finished, SlotInv
      <4> QED BY <1>5, <1>7, <4>1 DEF Holds
    <3> QED BY <1>2, <2>1, <3>1, <3>2 DEF Known
  <2> QED BY <1>2, <1>8, <2>1 DEF Known, Finished
<1> QED BY <1>10, <1>11, <1>12, <1>14, <1>15, <1>16, <1>17

\* A closed slot is given back.
LEMMA ClosedPeers ==
  ASSUME TypeInv, SlotInv, PeerInv, OnClosed
  PROVE  PeerInv'
<1> USE DEF PeerInv
<1> PICK s \in Slots : Seen(s, "CLOSING") /\ pool' = [pool EXCEPT ![s] = Zeroed]
  BY DEF OnClosed
<1> DEFINE h == Head(cq)
<1>1. /\ h \in Entries /\ h.slot = s /\ Finished(h, "CLOSING")
      /\ \A x \in Entries' : x \in Entries /\ x.slot # s
      /\ \A x \in Entries : x.slot # s => x \in Entries'
      /\ pc' = "top" /\ pool[s].last_event = "CLOSING"
  BY SeenEntry
<1>2. heap' = heap /\ backlog' = backlog /\ peer' = peer
  BY DEF OnClosed, queueVars, peerVars
<1>3. pool'[s] = Zeroed /\ \A x \in Slots : x # s => pool'[x] = pool[x]
  BY OtherSlots
<1>4. \A x \in Entries' : x \in Entries /\ x.slot \in Slots /\ pool'[x.slot] = pool[x.slot]
  BY <1>1, <1>3, EntryTypes
<1>5. \A x \in Slots, c \in Clients : Holds(x, c)' <=> Holds(x, c) /\ x # s
  BY <1>3, ZeroedFields, NoPeerAssumption DEF Holds
<1>6. SlotSockets'
  BY <1>2, <1>3, ZeroedFields DEF SlotSockets
<1>7. OneHolder' /\ OneListener'
  BY <1>3, ZeroedFields DEF OneHolder, OneListener, Listener, Holds
<1>8. NewSockets'
  BY <1>2, <1>4, <1>5 DEF NewSockets, Arrived, Finished
<1>9. BacklogOnce' /\ DownIsClosed'
  BY <1>1, <1>2 DEF BacklogOnce, DownIsClosed
<1>10. OwnRequest'
  <2>1. \A x \in heap : x \in Slots /\ x # s
    BY <1>1 DEF TypeInv, QueueTypes, SlotInv, PushedOnce
  <2> QED BY <1>2, <1>3, <1>4, <2>1 DEF OwnRequest, Finished
<1>11. Known'
  <2>1. ASSUME NEW c \in Clients, peer'[c] = "open"
        PROVE  \/ \E x \in Slots : Holds(x, c)'
               \/ \E x \in Entries' : Arrived(x)' /\ x.fd = c
    <3>1. CASE \E x \in Slots : Holds(x, c)
      <4> PICK x \in Slots : Holds(x, c)
        BY <3>1
      <4>1. x # s
        BY <1>1, <1>2, <2>1 DEF Known, Holds
      <4> QED BY <1>5, <4>1
    <3>2. CASE \E x \in Entries : Arrived(x) /\ x.fd = c
      <4> PICK x \in Entries : Arrived(x) /\ x.fd = c
        BY <3>2
      <4>1. x.slot # s
        BY <1>1 DEF Arrived, Finished
      <4> QED BY <1>1, <1>4, <4>1 DEF Arrived, Finished
    <3> QED BY <1>2, <2>1, <3>1, <3>2 DEF Known
  <2> QED BY <1>2, <1>4, <2>1 DEF Known, Finished
<1> QED BY <1>6, <1>7, <1>8, <1>9, <1>10, <1>11

\* A failed completion is dropped, and nothing was learnt from it.
LEMMA ErrorPeers ==
  ASSUME TypeInv, SlotInv, PeerInv, OnError
  PROVE  PeerInv'
<1> USE DEF PeerInv
<1>1. /\ pool' = pool /\ heap' = heap /\ backlog' = backlog /\ peer' = peer /\ pc' = "top"
      /\ Head(cq).failed /\ cq # <<>> /\ cq' = Tail(cq)
  BY DEF OnError, queueVars, peerVars
<1>2. Entries' = Entries \ {Head(cq)}
  BY <1>1, EntriesTail DEF SlotInv
<1>3. \A x \in Entries : \A e : Finished(x, e) => x \in Entries'
  BY <1>1, <1>2 DEF Finished
<1>4. SlotSockets' /\ OneHolder' /\ OneListener'
  BY <1>1 DEF SlotSockets, OneHolder, OneListener, Listener, Holds
<1>5. NewSockets' /\ OwnRequest'
  BY <1>1, <1>2 DEF NewSockets, OwnRequest, Holds, Arrived, Finished
<1>6. BacklogOnce' /\ DownIsClosed'
  BY <1>1 DEF BacklogOnce, DownIsClosed
<1>7. Known'
  BY <1>1, <1>2, <1>3 DEF Known, Holds, Arrived, Finished
<1> QED BY <1>4, <1>5, <1>6, <1>7

LEMMA LoopPeers ==
  ASSUME TypeInv, SlotInv, PeerInv, ServerLoop
  PROVE  PeerInv'
<1>1. CASE OnAcceptedFull
  BY <1>1, ExitPeers DEF OnAcceptedFull
<1>2. CASE OnReadExit
  BY <1>2, ExitPeers DEF OnReadExit
<1>3. CASE OnReadAnswered
  <2> PICK s \in Slots :
        /\ Seen(s, "READING")
        /\ pool' = [pool EXCEPT ![s] =
                      Writing(@, Text(StaticAnswer[Request(s)], @.buffer.about))]
    BY <1>3 DEF OnReadAnswered
  <2> DEFINE w == Writing(pool[s], Text(StaticAnswer[Request(s)], pool[s].buffer.about))
  <2>1. w.ring /\ w.last_event = "WRITING" /\ w.client_fd = pool[s].client_fd
    BY SeenSlot, SlotFields DEF Writing, ReqRes, SlotInv
  <2>2. /\ pool' = [pool EXCEPT ![s] = w] /\ heap' = heap /\ s \notin heap
        /\ backlog' = backlog /\ peer' = peer
    BY <1>3, SeenSlot DEF OnReadAnswered, queueVars, peerVars, SlotInv
  <2> HIDE DEF w
  <2> QED BY <2>1, <2>2, SeenEntry, SlotMoves
<1>4. CASE OnReadQueued
  <2> PICK s \in Slots :
        /\ Seen(s, "READING")
        /\ pool' = [pool EXCEPT ![s] = [@ EXCEPT
                      !.db_data = "allocated",
                      !.db_request_sender =
                         IF Request(s) = "extrato" THEN "extrato" ELSE "transacao"]]
        /\ Queue!queu_push(s)
    BY <1>4 DEF OnReadQueued
  <2> DEFINE r == [pool[s] EXCEPT !.db_data = "allocated",
                      !.db_request_sender =
                         IF Request(s) = "extrato" THEN "extrato" ELSE "transacao"]
  <2>1. /\ r.ring /\ r.last_event = "READING" /\ r.client_fd = pool[s].client_fd
        /\ r.buffer.about = r.client_fd
    <3>1. pool[s].buffer.about = pool[s].client_fd
      BY SeenEntry DEF PeerInv, OwnRequest
    <3> QED BY <3>1, SeenSlot, SlotFields DEF ReqRes, SlotInv
  <2>2. /\ pool' = [pool EXCEPT ![s] = r] /\ heap' = heap \cup {s}
        /\ backlog' = backlog /\ peer' = peer
    BY <1>4 DEF OnReadQueued, Queue!queu_push, peerVars
  <2> HIDE DEF r
  <2> QED BY <2>1, <2>2, SeenEntry, SlotMoves
<1>5. CASE OnDbResponding
  <2> PICK s \in Slots :
        /\ Seen(s, "DB_RESPONDING")
        /\ pool' = [pool EXCEPT ![s] = Writing(@,
             end_async(@.db_response_handler, Result(pool[s].dbconn), @.client_fd,
                       pg[pool[s].dbconn].query))]
    BY <1>5 DEF OnDbResponding
  <2> DEFINE a == end_async(pool[s].db_response_handler, Result(pool[s].dbconn),
                            pool[s].client_fd, pg[pool[s].dbconn].query)
             w == Writing(pool[s], a)
  <2>1. w.ring /\ w.last_event = "WRITING" /\ w.client_fd = pool[s].client_fd
    <3> HIDE DEF a
    <3> QED BY SeenSlot, SlotFields DEF Writing, ReqRes, SlotInv
  <2>2. /\ pool' = [pool EXCEPT ![s] = w] /\ heap' = heap /\ s \notin heap
        /\ backlog' = backlog /\ peer' = peer
    BY <1>5, SeenSlot DEF OnDbResponding, queueVars, peerVars, SlotInv
  <2> HIDE DEF w
  <2> QED BY <2>1, <2>2, SeenEntry, SlotMoves
<1>6. CASE OnWritten
  <2> PICK s \in Slots : /\ Seen(s, "WRITING")
                         /\ pool' = [pool EXCEPT ![s].last_event = "CLOSING"]
    BY <1>6 DEF OnWritten
  <2> DEFINE r == [pool[s] EXCEPT !.last_event = "CLOSING"]
  <2>1. r.ring /\ r.last_event = "CLOSING" /\ r.client_fd = pool[s].client_fd
    BY SeenSlot, SlotFields DEF ReqRes, SlotInv
  <2>2. /\ pool' = [pool EXCEPT ![s] = r] /\ heap' = heap /\ s \notin heap
        /\ backlog' = backlog /\ peer' = peer
    BY <1>6, SeenSlot DEF OnWritten, queueVars, peerVars, SlotInv
  <2> HIDE DEF r
  <2> QED BY <2>1, <2>2, SeenEntry, SlotMoves
<1> QED BY <1>1, <1>2, <1>3, <1>4, <1>5, <1>6, AcceptedPeers, ClosedPeers, ErrorPeers DEF ServerLoop

-----------------------------------------------------------------------------
\* The slot of an operation that is under way.
LEMMA OpUnderWay ==
  ASSUME TypeInv, SlotInv, NEW o \in sq \cup inflight
  PROVE  /\ o.slot \in Slots /\ pool[o.slot].ring /\ o.slot \notin heap
         /\ o.op = OpOf[pool[o.slot].last_event]
         /\ \A x \in Entries : x.slot # o.slot
         /\ pc # "down"
<1>1. o.slot \in Slots
  BY OpsSlots
<1>2. /\ pool[o.slot].ring /\ o.op = OpOf[pool[o.slot].last_event] /\ ~ Completed(o.slot)
  BY DEF SlotInv, OneOperation
<1>3. o.slot \notin heap
  BY DEF SlotInv, PushedOnce, Waiting
<1> QED BY <1>1, <1>2, <1>3, CompletedEntry DEF SlotInv, DownIsEmpty

\* The kernel finishes an operation that accepts nobody.
LEMMA Performed ==
  ASSUME TypeInv, SlotInv, PeerInv, NEW o \in inflight, NEW e \in Cqes, e.slot = o.slot,
         Complete(o, e), backlog' = backlog, heap' = heap, pc' = pc,
         o.op # "accept" \/ e.failed,
         \A x \in Slots : /\ pool'[x].ring = pool[x].ring
                          /\ pool'[x].last_event = pool[x].last_event
                          /\ pool'[x].client_fd = pool[x].client_fd
                          /\ x # o.slot => pool'[x] = pool[x],
         ~ e.failed /\ o.op = "read" => pool'[o.slot].buffer.about = pool[o.slot].client_fd,
         \/ peer' = peer /\ (e.failed \/ o.op # "close")
         \/ o.op = "close" /\ peer' = [peer EXCEPT ![pool[o.slot].client_fd] = "closed"]
  PROVE  PeerInv'
<1> USE DEF PeerInv
<1> DEFINE s == o.slot
           c == pool[s].client_fd
<1>1. /\ s \in Slots /\ pool[s].ring /\ s \notin heap /\ pc # "down"
      /\ o.op = OpOf[pool[s].last_event]
      /\ \A x \in Entries : x.slot # s
  BY OpUnderWay
<1>2. /\ pool[s].last_event = "ACCEPTTING" => o.op = "accept"
      /\ pool[s].last_event = "READING" => o.op = "read"
      /\ pool[s].last_event = "CLOSING" => o.op = "close"
      /\ o.op = "close" => pool[s].last_event = "CLOSING"
  BY <1>1, EventOfOp, OpNames
<1>3. Entries' = Entries \cup {e}
  BY EntriesAppend DEF Complete
<1>4. \A x \in Entries : \A ev : Finished(x, ev)' <=> Finished(x, ev)
  BY EntryTypes DEF Finished
<1>5. ~ Arrived(e)'
  BY <1>1, <1>2 DEF Arrived, Finished
<1>6. \A x \in Slots : \A d : Holds(x, d)' <=> Holds(x, d)
  BY DEF Holds
<1>7. \A d \in Clients : peer'[d] = peer[d] \/ (d = c /\ pool[s].last_event = "CLOSING" /\ peer'[d] = "closed")
  BY <1>2 DEF TypeInv, PeerTypes
<1>8. SlotSockets'
  <2> SUFFICES ASSUME NEW x \in Slots, pool[x].last_event # "ACCEPTTING"
               PROVE  \/ peer'[pool[x].client_fd] = "open"
                      \/ /\ pool[x].last_event = "CLOSING"
                         /\ peer'[pool[x].client_fd] = "closed"
    BY DEF SlotSockets
  <2>1. pool[x].client_fd \in Clients /\ pool[x].client_fd # NULL
    BY NoPeerAssumption DEF SlotSockets
  <2>2. pool[x].client_fd = c => x = s
    BY <1>1, <2>1 DEF OneHolder, Holds
  <2> QED BY <1>7, <2>1, <2>2 DEF SlotSockets
<1>9. OneHolder' /\ OneListener'
  BY DEF OneHolder, OneListener, Listener, Holds
<1>10. NewSockets'
  <2> SUFFICES ASSUME NEW x \in Entries, Arrived(x)
               PROVE  /\ x.fd \in Clients /\ peer'[x.fd] = "open"
                      /\ \A y \in Slots : ~ Holds(y, x.fd)
    BY <1>3, <1>4, <1>5, <1>6 DEF NewSockets, Arrived
  <2> QED BY <1>1, <1>7 DEF NewSockets, Holds
<1>11. BacklogOnce'
  <2>1. \A i \in DOMAIN backlog : backlog[i] \in Clients
    BY ElementOfSeq, LenProperties DEF TypeInv, PeerTypes
  <2>2. \A i \in DOMAIN backlog : peer'[backlog[i]] = "backlog"
    <3> TAKE i \in DOMAIN backlog
    <3>1. backlog[i] \in Clients /\ peer[backlog[i]] = "backlog"
      BY <2>1 DEF BacklogOnce
    <3>2. CASE backlog[i] = c /\ pool[s].last_event = "CLOSING"
      BY <1>1, <3>1, <3>2 DEF SlotSockets
    <3> QED BY <1>7, <3>1, <3>2
  <2> QED BY <2>2 DEF BacklogOnce
<1>12. DownIsClosed'
  BY <1>1 DEF DownIsClosed
<1>13. OwnRequest'
  <2>1. \A x \in heap : x \in Slots /\ x # s
    BY <1>1 DEF TypeInv, QueueTypes
  <2>2. \A x \in Entries : x.slot \in Slots /\ x.slot # s
    BY <1>1, EntryTypes
  <2>3. Finished(e, "READING")' => pool'[e.slot].buffer.about = pool'[e.slot].client_fd
    BY <1>1, <1>2 DEF Finished
  <2>4. \A x \in heap : pool'[x].buffer.about = pool'[x].client_fd
    BY <2>1 DEF OwnRequest
  <2>5. \A x \in Entries : Finished(x, "READING")' => pool'[x.slot].buffer.about = pool'[x.slot].client_fd
    BY <1>4, <2>2 DEF OwnRequest
  <2> QED BY <1>3, <2>3, <2>4, <2>5 DEF OwnRequest
<1>14. Known'
  <2>1. \A d \in Clients : peer'[d] = "open" =>
          \/ \E x \in Slots : Holds(x, d)'
          \/ \E x \in Entries' : Arrived(x)' /\ x.fd = d
    BY <1>3, <1>4, <1>6, <1>7 DEF Known, Arrived
  <2>2. \A x \in Entries' : Finished(x, "CLOSING")' => peer'[pool'[x.slot].client_fd] = "closed"
    <3>1. ASSUME NEW x \in Entries, Finished(x, "CLOSING")
          PROVE  peer'[pool'[x.slot].client_fd] = "closed"
      <4>1. x.slot \in Slots /\ pool[x.slot].client_fd \in Clients
        BY <3>1, EntryTypes DEF SlotSockets, Finished
      <4> QED BY <1>7, <3>1, <4>1 DEF Known
    <3>2. ASSUME Finished(e, "CLOSING")'
          PROVE  peer'[pool'[e.slot].client_fd] = "closed"
      <4>1. o.op = "close" /\ ~ e.failed /\ c \in Clients
        BY <1>1, <1>2, <3>2 DEF Finished, SlotSockets
      <4> QED BY <1>1, <4>1 DEF TypeInv, PeerTypes
    <3> QED BY <1>3, <1>4, <3>1, <3>2
  <2> QED BY <2>1, <2>2 DEF Known
<1> QED BY <1>8, <1>9, <1>10, <1>11, <1>12, <1>13, <1>14

\* The peers that wait behind the first.
LEMMA BacklogTail ==
  ASSUME TypeInv, BacklogOnce, backlog # <<>>
  PROVE  /\ Head(backlog) \in Clients /\ peer[Head(backlog)] = "backlog"
         /\ \A i \in DOMAIN Tail(backlog) :
              /\ Tail(backlog)[i] \in Clients /\ Tail(backlog)[i] # Head(backlog)
              /\ peer[Tail(backlog)[i]] = "backlog"
         /\ \A i, j \in DOMAIN Tail(backlog) : Tail(backlog)[i] = Tail(backlog)[j] => i = j
<1> DEFINE b == backlog
           t == Tail(backlog)
<1>1. b \in Seq(Clients) /\ Len(b) \in Nat /\ Len(b) > 0 /\ DOMAIN b = 1 .. Len(b)
  BY EmptySeq, LenProperties DEF TypeInv, PeerTypes
<1>2. /\ Len(t) = Len(b) - 1 /\ t \in Seq(Clients)
      /\ \A i \in 1 .. Len(b) - 1 : t[i] = b[i + 1]
      /\ Head(b) = b[1]
  BY <1>1, HeadTailProperties
<1>3. DOMAIN t = 1 .. Len(b) - 1
  BY <1>2, LenProperties
<1>4. \A i \in DOMAIN b : b[i] \in Clients
  BY <1>1, ElementOfSeq
<1> HIDE DEF t
<1>5. \A i \in DOMAIN t : i + 1 \in DOMAIN b /\ i + 1 # 1 /\ t[i] = b[i + 1] /\ i \in Int
  BY <1>1, <1>2, <1>3
<1>6. 1 \in DOMAIN b
  BY <1>1
<1>7. \A i \in DOMAIN t : t[i] \in Clients /\ t[i] # b[1] /\ peer[t[i]] = "backlog"
  BY <1>4, <1>5, <1>6 DEF BacklogOnce
<1>8. \A i, j \in DOMAIN t : t[i] = t[j] => i = j
  <2> TAKE i, j \in DOMAIN t
  <2> HAVE t[i] = t[j]
  <2>1. b[i + 1] = b[j + 1]
    BY <1>5
  <2>2. i + 1 = j + 1
    BY <1>5, <2>1 DEF BacklogOnce
  <2> QED BY <1>5, <2>2
<1> QED BY <1>2, <1>4, <1>6, <1>7, <1>8 DEF t, BacklogOnce

\* A peer takes the place at the end of the backlog.
LEMMA BacklogAppend ==
  ASSUME TypeInv, BacklogOnce, NEW c \in Clients, peer[c] = "idle",
         backlog' = Append(backlog, c), peer' = [peer EXCEPT ![c] = "backlog"]
  PROVE  BacklogOnce'
<1>1. backlog \in Seq(Clients) /\ Len(backlog) \in Nat /\ DOMAIN backlog = 1 .. Len(backlog)
  BY LenProperties DEF TypeInv, PeerTypes
<1>2. /\ Len(backlog') = Len(backlog) + 1
      /\ \A i \in 1 .. Len(backlog) : backlog'[i] = backlog[i]
      /\ backlog'[Len(backlog) + 1] = c
      /\ backlog' \in Seq(Clients)
  BY <1>1, AppendProperties
<1>3. DOMAIN backlog' = 1 .. Len(backlog) + 1
  BY <1>2, LenProperties
<1>4. \A i \in DOMAIN backlog' : i \in DOMAIN backlog \/ i = Len(backlog) + 1
  BY <1>1, <1>3
<1>5. \A i \in DOMAIN backlog : backlog[i] \in Clients /\ backlog[i] # c
  BY <1>1, ElementOfSeq DEF BacklogOnce
<1>6. \A i \in DOMAIN backlog' : peer'[backlog'[i]] = "backlog"
  BY <1>1, <1>2, <1>4, <1>5 DEF BacklogOnce, TypeInv, PeerTypes
<1>7. \A i, j \in DOMAIN backlog' : backlog'[i] = backlog'[j] => i = j
  BY <1>1, <1>2, <1>4, <1>5 DEF BacklogOnce
<1> QED BY <1>6, <1>7 DEF BacklogOnce

LEMMA AcceptCompletes ==
  ASSUME TypeInv, SlotInv, PeerInv, CompleteAccept
  PROVE  PeerInv'
<1> USE DEF PeerInv
<1> PICK h : h = Head(backlog)
  OBVIOUS
<1>0. PICK o \in inflight : o.op = "accept" /\ Complete(o, Cqe(o.slot, FALSE, h))
  BY DEF CompleteAccept
<1> PICK e : e = Cqe(o.slot, FALSE, h)
  OBVIOUS
<1>1. /\ backlog # <<>> /\ backlog' = Tail(backlog) /\ peer' = [peer EXCEPT ![h] = "open"]
      /\ pool' = pool /\ heap' = heap /\ pc' = pc
  BY DEF CompleteAccept, serverVars, queueVars
<1>2. h \in Clients /\ peer[h] = "backlog"
  BY <1>1, BacklogTail
<1>3. o.slot \in Slots /\ pool[o.slot].last_event = "ACCEPTTING" /\ pc # "down"
  BY <1>0, EventOfOp
<1>4. e \in Cqes /\ e.slot = o.slot /\ ~ e.failed /\ e.fd = h
  BY <1>2, <1>3 DEF Cqe, Cqes
<1>5. cq' = Append(cq, e)
  BY <1>0 DEF Complete
<1>6. Entries' = Entries \cup {e}
  BY <1>4, <1>5, EntriesAppend
<1>7. Arrived(e)' /\ \A x \in Entries : \A ev : Finished(x, ev)' <=> Finished(x, ev)
  BY <1>1, <1>3, <1>4 DEF Arrived, Finished
<1>8. /\ peer'[h] = "open" /\ \A c \in Clients : c # h => peer'[c] = peer[c]
      /\ h # NULL
  BY <1>1, <1>2, NoPeerAssumption DEF TypeInv, PeerTypes
<1>9. \A x \in Slots : ~ Holds(x, h)
  BY <1>2, <1>8 DEF SlotSockets, Holds
<1>10. SlotSockets'
  BY <1>1, <1>8, <1>9 DEF SlotSockets, Holds
<1>11. OneHolder' /\ OneListener'
  BY <1>1 DEF OneHolder, OneListener, Listener, Holds
<1>12. NewSockets'
  <2> SUFFICES ASSUME NEW x \in Entries', Arrived(x)'
               PROVE  x.fd \in Clients /\ peer'[x.fd] = "open" /\ \A y \in Slots : ~ Holds(y, x.fd)
    BY <1>1 DEF NewSockets, Holds
  <2>1. CASE x = e
    BY <1>2, <1>4, <1>8, <1>9, <2>1
  <2>2. CASE x \in Entries
    BY <1>7, <1>8, <2>2 DEF NewSockets, Arrived
  <2> QED BY <1>6, <2>1, <2>2
<1>13. BacklogOnce'
  <2>1. /\ \A i \in DOMAIN backlog' :
              /\ backlog'[i] \in Clients /\ backlog'[i] # h /\ peer[backlog'[i]] = "backlog"
        /\ \A i, j \in DOMAIN backlog' : backlog'[i] = backlog'[j] => i = j
    BY <1>1, BacklogTail
  <2> QED BY <1>8, <2>1 DEF BacklogOnce
<1>14. DownIsClosed'
  BY <1>1, <1>3 DEF DownIsClosed
<1>15. OwnRequest'
  <2>1. ~ Finished(e, "READING")'
    BY <1>1, <1>3, <1>4 DEF Finished
  <2> QED BY <1>1, <1>6, <1>7, <2>1 DEF OwnRequest
<1>16. Known'
  <2>1. \A c \in Clients : peer'[c] = "open" =>
          \/ \E x \in Slots : Holds(x, c)
          \/ \E x \in Entries' : Arrived(x)' /\ x.fd = c
    BY <1>4, <1>6, <1>7, <1>8 DEF Known, Arrived
  <2>2. ~ Finished(e, "CLOSING")'
    BY <1>1, <1>3, <1>4 DEF Finished
  <2>3. ASSUME NEW x \in Entries, Finished(x, "CLOSING")
        PROVE  peer'[pool[x.slot].client_fd] = "closed"
    <3>1. x.slot \in Slots /\ pool[x.slot].client_fd \in Clients
      BY <2>3, EntryTypes DEF SlotSockets, Finished
    <3> QED BY <1>8, <1>9, <2>3, <3>1 DEF Known, Holds
  <2>4. \A x \in Entries' : Finished(x, "CLOSING")' => peer'[pool[x.slot].client_fd] = "closed"
    BY <1>6, <1>7, <2>2, <2>3
  <2> QED BY <1>1, <2>1, <2>4 DEF Known, Holds
<1> QED BY <1>10, <1>11, <1>12, <1>13, <1>14, <1>15, <1>16

LEMMA KernelPeers ==
  ASSUME TypeInv, SlotInv, PeerInv, Kernel
  PROVE  PeerInv'
<1>1. ASSUME NEW o \in inflight, NEW f \in BOOLEAN
      PROVE  /\ Cqe(o.slot, f, NULL) \in Cqes /\ Cqe(o.slot, f, NULL).slot = o.slot
             /\ Cqe(o.slot, f, NULL).failed = f
  BY OpsSlots, CqeType DEF Cqe
<1>2. CASE CompleteRead
  <2> PICK o \in inflight :
        /\ o.op = "read"
        /\ pool' = [pool EXCEPT ![o.slot].buffer = Text("request", pool[o.slot].client_fd)]
        /\ Complete(o, Cqe(o.slot, FALSE, NULL))
    BY <1>2 DEF CompleteRead
  <2> DEFINE r == [pool[o.slot] EXCEPT !.buffer = Text("request", pool[o.slot].client_fd)]
  <2>1. o.slot \in Slots
    BY OpsSlots
  <2>2. /\ r.ring = pool[o.slot].ring /\ r.last_event = pool[o.slot].last_event
        /\ r.client_fd = pool[o.slot].client_fd /\ r.buffer.about = pool[o.slot].client_fd
    BY <2>1, SlotFields DEF ReqRes, Text
  <2>3. pool' = [pool EXCEPT ![o.slot] = r]
    OBVIOUS
  <2> HIDE DEF r
  <2>0. pool'[o.slot] = r /\ \A x \in Slots : x # o.slot => pool'[x] = pool[x]
    BY <2>1, <2>3, OtherSlots
  <2>4. /\ \A x \in Slots : /\ pool'[x].ring = pool[x].ring
                            /\ pool'[x].last_event = pool[x].last_event
                            /\ pool'[x].client_fd = pool[x].client_fd
                            /\ x # o.slot => pool'[x] = pool[x]
        /\ pool'[o.slot].buffer.about = pool[o.slot].client_fd
    BY <2>0, <2>2
  <2>5. backlog' = backlog /\ heap' = heap /\ pc' = pc /\ peer' = peer
    BY <1>2 DEF CompleteRead, queueVars, peerVars
  <2> QED BY <1>1, <2>4, <2>5, Performed
<1>3. CASE CompleteWrite
  <2> PICK o \in inflight : o.op = "write" /\ Complete(o, Cqe(o.slot, FALSE, NULL))
    BY <1>3 DEF CompleteWrite
  <2>1. backlog' = backlog /\ heap' = heap /\ pc' = pc /\ peer' = peer /\ pool' = pool
    BY <1>3 DEF CompleteWrite, queueVars, serverVars
  <2> QED BY <1>1, <2>1, Performed
<1>4. CASE CompleteClose
  <2> PICK o \in inflight :
        /\ o.op = "close"
        /\ peer' = [peer EXCEPT ![pool[o.slot].client_fd] = "closed"]
        /\ Complete(o, Cqe(o.slot, FALSE, NULL))
    BY <1>4 DEF CompleteClose
  <2>1. backlog' = backlog /\ heap' = heap /\ pc' = pc /\ pool' = pool
    BY <1>4 DEF CompleteClose, queueVars, serverVars
  <2> QED BY <1>1, <2>1, Performed
<1>5. CASE CompleteDbRead
  <2> PICK o \in inflight : o.op = "dbread" /\ Complete(o, Cqe(o.slot, FALSE, NULL))
    BY <1>5 DEF CompleteDbRead
  <2>1. backlog' = backlog /\ heap' = heap /\ pc' = pc /\ peer' = peer /\ pool' = pool
    BY <1>5 DEF CompleteDbRead, queueVars, serverVars, peerVars
  <2> QED BY <1>1, <2>1, Performed
<1>6. CASE CompleteError
  <2> PICK o \in inflight : Complete(o, Cqe(o.slot, TRUE, NULL))
    BY <1>6 DEF CompleteError
  <2>1. backlog' = backlog /\ heap' = heap /\ pc' = pc /\ peer' = peer /\ pool' = pool
    BY <1>6 DEF CompleteError, queueVars, serverVars, peerVars
  <2> QED BY <1>1, <2>1, Performed
<1> QED BY <1>2, <1>3, <1>4, <1>5, <1>6, AcceptCompletes DEF Kernel

\* A peer connects.
LEMMA ConnectPeers ==
  ASSUME TypeInv, PeerInv, Connect
  PROVE  PeerInv'
<1> USE DEF PeerInv
<1>1. PICK c \in Clients :
        /\ peer[c] = "idle"
        /\ peer' = [peer EXCEPT ![c] = "backlog"]
        /\ backlog' = Append(backlog, c)
  BY DEF Connect
<1>2. /\ pool' = pool /\ heap' = heap /\ cq' = cq /\ pc' = pc /\ pc # "down"
  BY DEF Connect, serverVars, queueVars, ringVars
<1>3. Entries' = Entries
  BY <1>2 DEF Entries
<1>4. /\ peer'[c] = "backlog" /\ \A d \in Clients : d # c => peer'[d] = peer[d]
  BY <1>1 DEF TypeInv, PeerTypes
<1>5. BacklogOnce' /\ DownIsClosed'
  BY <1>1, <1>2, BacklogAppend DEF DownIsClosed
<1>6. SlotSockets'
  BY <1>1, <1>2, <1>4 DEF SlotSockets
<1>7. OneHolder' /\ OneListener' /\ OwnRequest'
  BY <1>2, <1>3 DEF OneHolder, OneListener, Listener, Holds, OwnRequest, Finished
<1>8. NewSockets'
  BY <1>1, <1>2, <1>3, <1>4 DEF NewSockets, Holds, Arrived, Finished
<1>9. Known'
  <2>1. \A x \in Entries : Finished(x, "CLOSING") =>
          pool[x.slot].client_fd \in Clients /\ pool[x.slot].client_fd # c
    BY <1>1, EntryTypes DEF Known, SlotSockets, Finished
  <2> QED BY <1>2, <1>3, <1>4, <2>1 DEF Known, Holds, Arrived, Finished
<1> QED BY <1>5, <1>6, <1>7, <1>8, <1>9

LEMMA DispatchPeers ==
  ASSUME TypeInv, SlotInv, PeerInv, QueuDispatch
  PROVE  PeerInv'
<1>1. CASE DispatchStart \/ DispatchNoConn \/ DispatchEmpty
  <2>1. /\ pool' = pool /\ cq' = cq /\ heap' = heap /\ backlog' = backlog /\ peer' = peer
        /\ pc' # "down"
    BY <1>1 DEF DispatchStart, DispatchNoConn, DispatchEmpty, queueVars, ringVars, peerVars
  <2>2. Entries' = Entries
    BY <2>1 DEF Entries
  <2> QED BY <2>1, <2>2, PeersKept
<1>2. ASSUME NEW s \in Slots, Queue!queu_pop(s), cq' = cq
      PROVE  /\ s \in heap /\ heap' = heap \ {s} /\ pool[s].ring
             /\ pool[s].last_event = "READING" /\ pool[s].buffer.about = pool[s].client_fd
             /\ \A x \in Entries' : x \in Entries /\ x.slot # s
             /\ \A x \in Entries : x.slot # s => x \in Entries'
  <2>1. s \in heap /\ heap' = heap \ {s}
    BY <1>2 DEF Queue!queu_pop, SlotInv, QP!QInv, QP!NoDangling
  <2>2. pool[s].ring /\ pool[s].last_event = "READING" /\ ~ Completed(s)
    BY <2>1, WaitingParts DEF SlotInv, PushedOnce
  <2>3. Entries' = Entries
    BY <1>2 DEF Entries
  <2>4. \A x \in Entries : x.slot # s
    BY <2>2, CompletedEntry
  <2> QED BY <2>1, <2>2, <2>3, <2>4 DEF PeerInv, OwnRequest
<1>3. CASE DispatchRefuse
  <2> PICK s \in Slots :
        /\ Queue!queu_pop(s)
        /\ pool' = [pool EXCEPT ![s] =
                     Writing([@ EXCEPT !.dbconn = dbconn, !.db_data = "freed"],
                             Text("UNPROCESSABLE", pool[s].buffer.about))]
    BY <1>3 DEF DispatchRefuse
  <2> DEFINE q == [pool[s] EXCEPT !.dbconn = dbconn, !.db_data = "freed"]
             w == Writing(q, Text("UNPROCESSABLE", pool[s].buffer.about))
  <2>1. q \in ReqRes /\ q.ring = pool[s].ring /\ q.client_fd = pool[s].client_fd
    BY SlotFields DEF ReqRes, TypeInv, ServerTypes
  <2>2. w.ring = pool[s].ring /\ w.last_event = "WRITING" /\ w.client_fd = pool[s].client_fd
    <3> HIDE DEF q
    <3> QED BY <2>1 DEF Writing, ReqRes
  <2>3. /\ pool' = [pool EXCEPT ![s] = w] /\ cq' = cq /\ pc' # "down"
        /\ backlog' = backlog /\ peer' = peer
    BY <1>3 DEF DispatchRefuse, peerVars
  <2> HIDE DEF w
  <2> QED BY <1>2, <2>2, <2>3, SlotMoves
<1>4. CASE DispatchSend
  <2> PICK s \in Slots :
        /\ Queue!queu_pop(s)
        /\ pool' = [pool EXCEPT ![s] =
                     [@ EXCEPT !.dbconn = dbconn, !.db_data = "freed",
                               !.db_response_handler = pool[s].db_request_sender,
                               !.last_event = "DB_RESPONDING"]]
    BY <1>4 DEF DispatchSend
  <2> DEFINE r == [pool[s] EXCEPT !.dbconn = dbconn, !.db_data = "freed",
                               !.db_response_handler = pool[s].db_request_sender,
                               !.last_event = "DB_RESPONDING"]
  <2>1. r.ring = pool[s].ring /\ r.last_event = "DB_RESPONDING" /\ r.client_fd = pool[s].client_fd
    BY SlotFields DEF ReqRes
  <2>2. /\ pool' = [pool EXCEPT ![s] = r] /\ cq' = cq /\ pc' # "down"
        /\ backlog' = backlog /\ peer' = peer
    BY <1>4 DEF DispatchSend, peerVars
  <2> HIDE DEF r
  <2> QED BY <1>2, <2>1, <2>2, SlotMoves
<1>5. CASE DispatchFatal
  BY <1>5, ExitPeers DEF DispatchFatal
<1> QED BY <1>1, <1>3, <1>4, <1>5 DEF QueuDispatch

LEMMA PeerStep == TypeInv /\ SlotInv /\ PeerInv /\ [Next]_vars => PeerInv'
<1> SUFFICES ASSUME TypeInv, SlotInv, PeerInv, [Next]_vars PROVE PeerInv'
  OBVIOUS
<1>1. CASE Crash
  BY <1>1, ExitPeers DEF Crash
<1>2. CASE BackendRuns \/ OrphanRuns \/ CutLink \/ UNCHANGED vars
  <2>1. /\ pool' = pool /\ cq' = cq /\ heap' = heap /\ backlog' = backlog /\ peer' = peer
        /\ pc' = pc
    BY <1>2 DEF BackendRuns, OrphanRuns, CutLink, vars, serverVars, queueVars, ringVars, peerVars
  <2>2. Entries' = Entries
    BY <2>1 DEF Entries
  <2> QED BY <2>1, <2>2, PeersKept
<1> QED BY <1>1, <1>2, BootPeers, DispatchPeers, LoopPeers, KernelPeers, ConnectPeers DEF Next, World

\* The sockets invariant is kept by every step, from SlotInv and the types: a
\* socket, its peer and the slot that holds it agree at each point of the loop.
THEOREM PeerInvariant == Spec => []PeerInv
  BY PeerInit, PeerStep, TypeInvariant, SlotInvariant, PTL DEF Spec

\* No two live slots hold the same socket, and a slot holds its socket open
\* until its close is done, so no write and no close reaches the connection of
\* another peer (server.c:81-137): for any pools, peers and faults.
THEOREM SocketsOwned == Spec => []SocketOwnership
<1>1. PeerInv => SocketOwnership
  BY DEF PeerInv, SlotSockets, OneHolder, Holds, SocketOwnership
<1> QED BY <1>1, PeerInvariant, PTL

-----------------------------------------------------------------------------
(***************************************************************************)
(* Nobody is forgotten: a queue that is not empty sleeps only while every  *)
(* connection is taken, and, when operations do not fail, every live slot  *)
(* has something under way and one of them listens.                        *)
(***************************************************************************)
\* DBCONNS_USED marks no connection that nobody has, and the loop goes to sleep
\* on a queue that is not empty only with all of them marked.
NoLeak ==
  /\ \A d \in DBConns : used[d] => dbconn = d \/ \E s \in Slots : Owns(s, d)
  /\ pc # "dispatch" => dbconn = NULL
  /\ pc = "dispatch" /\ dbconn = NULL => \A d \in DBConns : used[d]
  /\ NoIdleConnection


LEMMA GetConnAll ==
  ASSUME TypeInv, get_dbconn
  PROVE  \/ dbconn' = NULL /\ used' = used /\ \A d \in DBConns : used[d]
         \/ \E d \in DBConns : ~ used[d] /\ dbconn' = d /\ used' = [used EXCEPT ![d] = TRUE]
<1> DEFINE free == {d \in DBConns : ~ used[d]}
<1>1. \/ free = {} /\ dbconn' = NULL /\ UNCHANGED used
      \/ \E d \in free : dbconn' = d /\ used' = [used EXCEPT ![d] = TRUE]
  BY DEF get_dbconn
<1> QED BY <1>1

\* A step that leaves the connections, and the slots that have one, alone.
LEMMA LeakKept ==
  ASSUME NoLeak, used' = used, dbconn' = dbconn, pc # "dispatch", pc' # "dispatch",
         pc' # "wait" \/ (pc = "wait" /\ first' = first),
         \A x \in Slots : Responding(x) => pool'[x] = pool[x]
  PROVE  NoLeak'
<1>1. \A x \in Slots, d \in DBConns : Owns(x, d) => Owns(x, d)'
  BY DEF Owns, Responding
<1>2. \A d \in DBConns : used'[d] => \E x \in Slots : Owns(x, d)'
  BY <1>1, NoPeerAssumption DEF NoLeak
<1> QED BY <1>2 DEF NoLeak, NoIdleConnection

LEMMA LeakInit == Init => NoLeak
<1> SUFFICES ASSUME Init PROVE NoLeak
  OBVIOUS
<1>1. pc = "down" /\ dbconn = NULL /\ \A d \in DBConns : ~ used[d]
  BY DEF Init
<1> QED BY <1>1 DEF NoLeak, NoIdleConnection

LEMMA ExitLeak ==
  ASSUME NEW answered, NEW links, Exit(answered, links)
  PROVE  NoLeak'
<1>1. pc' = "down" /\ dbconn' = NULL /\ \A d \in DBConns : ~ used'[d]
  BY DEF Exit
<1> QED BY <1>1 DEF NoLeak, NoIdleConnection

LEMMA DispatchLeak ==
  ASSUME TypeInv, SlotInv, NoLeak, QueuDispatch
  PROVE  NoLeak'
<1>1. CASE DispatchStart
  <2>1. pc' = "dispatch" /\ pool' = pool /\ dbconn = NULL /\ get_dbconn
    BY <1>1 DEF DispatchStart, NoLeak
  <2>2. \A x \in Slots, d \in DBConns : Owns(x, d) => Owns(x, d)'
    BY <2>1 DEF Owns, Responding
  <2>3. CASE dbconn' = NULL /\ used' = used /\ \A d \in DBConns : used[d]
    BY <2>1, <2>2, <2>3 DEF NoLeak, NoIdleConnection
  <2>4. CASE \E d \in DBConns : ~ used[d] /\ dbconn' = d /\ used' = [used EXCEPT ![d] = TRUE]
    <3> PICK d \in DBConns : dbconn' = d /\ used' = [used EXCEPT ![d] = TRUE]
      BY <2>4
    <3>1. \A e \in DBConns : e # d => used'[e] = used[e]
      BY DEF TypeInv, ServerTypes
    <3>2. \A e \in DBConns : used'[e] => dbconn' = e \/ \E x \in Slots : Owns(x, e)'
      BY <2>1, <2>2, <3>1, NoPeerAssumption DEF NoLeak
    <3> QED BY <2>1, <3>2, NoPeerAssumption DEF NoLeak, NoIdleConnection
  <2> QED BY <2>1, <2>3, <2>4, GetConnAll
<1>2. CASE DispatchNoConn
  BY <1>2 DEF DispatchNoConn, queueVars, NoLeak, NoIdleConnection, Owns, Responding
<1>3. CASE DispatchEmpty
  <2>1. /\ pc' = "wait" /\ pool' = pool /\ first' = NULL /\ dbconn' = NULL
        /\ used' = [used EXCEPT ![dbconn] = FALSE] /\ dbconn \in DBConns
    BY <1>3 DEF DispatchEmpty, release_dbconn, queueVars, TypeInv, ServerTypes
  <2>2. \A d \in DBConns : used'[d] => used[d] /\ d # dbconn
    BY <2>1 DEF TypeInv, ServerTypes
  <2> QED BY <2>1, <2>2 DEF NoLeak, NoIdleConnection, Owns, Responding
<1>4. CASE DispatchRefuse
  <2> PICK s \in Slots :
        /\ Queue!queu_pop(s)
        /\ \E r : pool' = [pool EXCEPT ![s] = r]
    BY <1>4 DEF DispatchRefuse
  <2>1. /\ pc' = "dispatch" /\ dbconn' = dbconn /\ dbconn # NULL /\ dbconn \in DBConns
        /\ used' = [used EXCEPT ![dbconn] = FALSE]
    BY <1>4 DEF DispatchRefuse, release_dbconn, TypeInv, ServerTypes
  <2>2. s \in heap /\ ~ Responding(s) /\ \A x \in Slots : x # s => pool'[x] = pool[x]
    BY OtherSlots DEF Queue!queu_pop, SlotInv, QP!QInv, QP!NoDangling, PushedOnce, Responding
  <2>3. \A x \in Slots, d \in DBConns : Owns(x, d) => Owns(x, d)'
    BY <2>2 DEF Owns, Responding
  <2>4. \A d \in DBConns : used'[d] => used[d]
    BY <2>1 DEF TypeInv, ServerTypes
  <2> QED BY <2>1, <2>3, <2>4 DEF NoLeak, NoIdleConnection
<1>5. CASE DispatchSend
  <2> PICK s \in Slots :
        /\ Queue!queu_pop(s)
        /\ pool' = [pool EXCEPT ![s] =
                     [@ EXCEPT !.dbconn = dbconn, !.db_data = "freed",
                               !.db_response_handler = pool[s].db_request_sender,
                               !.last_event = "DB_RESPONDING"]]
        /\ get_dbconn
    BY <1>5 DEF DispatchSend
  <2> DEFINE r == [pool[s] EXCEPT !.dbconn = dbconn, !.db_data = "freed",
                               !.db_response_handler = pool[s].db_request_sender,
                               !.last_event = "DB_RESPONDING"]
  <2>1. pc' = "dispatch" /\ dbconn # NULL /\ dbconn \in DBConns
    BY <1>5 DEF DispatchSend, TypeInv, ServerTypes
  <2>2. r.last_event = "DB_RESPONDING" /\ r.dbconn = dbconn
    BY <2>1, SlotFields DEF ReqRes
  <2>3. pool' = [pool EXCEPT ![s] = r]
    OBVIOUS
  <2> HIDE DEF r
  <2>4. /\ s \in heap /\ ~ Responding(s)
        /\ pool'[s] = r /\ \A x \in Slots : x # s => pool'[x] = pool[x]
    <3>1. s \in heap
      BY DEF Queue!queu_pop, SlotInv, QP!QInv, QP!NoDangling
    <3>2. ~ Responding(s)
      BY <3>1 DEF SlotInv, PushedOnce, Responding
    <3> QED BY <2>3, <3>1, <3>2, OtherSlots
  <2> PICK d : d = dbconn
    OBVIOUS
  <2>5. Owns(s, d)' /\ \A x \in Slots : \A e : Owns(x, e) => Owns(x, e)'
    BY <2>2, <2>4 DEF Owns, Responding
  <2>6. \A e \in DBConns : used[e] => \E x \in Slots : Owns(x, e)'
    BY <2>5 DEF NoLeak
  <2>7. CASE dbconn' = NULL /\ used' = used /\ \A e \in DBConns : used[e]
    BY <2>1, <2>6, <2>7 DEF NoLeak, NoIdleConnection
  <2>8. CASE \E e \in DBConns : ~ used[e] /\ dbconn' = e /\ used' = [used EXCEPT ![e] = TRUE]
    <3> PICK e \in DBConns : dbconn' = e /\ used' = [used EXCEPT ![e] = TRUE]
      BY <2>8
    <3>1. \A f \in DBConns : f # e => used'[f] = used[f]
      BY DEF TypeInv, ServerTypes
    <3>2. \A f \in DBConns : used'[f] => dbconn' = f \/ \E x \in Slots : Owns(x, f)'
      BY <2>6, <3>1
    <3> QED BY <2>1, <3>2, NoPeerAssumption DEF NoLeak, NoIdleConnection
  <2> QED BY <2>7, <2>8, GetConnAll
<1>6. CASE DispatchFatal
  BY <1>6, ExitLeak DEF DispatchFatal
<1> QED BY <1>1, <1>2, <1>3, <1>4, <1>5, <1>6 DEF QueuDispatch

LEMMA LoopLeak ==
  ASSUME TypeInv, SlotInv, PeerInv, NoLeak, ServerLoop
  PROVE  NoLeak'
<1>1. CASE OnError
  BY <1>1, LeakKept DEF OnError
<1>2. ASSUME NEW s \in Slots, NEW e, Seen(s, e), e # "DB_RESPONDING",
             used' = used, dbconn' = dbconn,
             \A x \in Slots : x # s /\ pool[x].ring => pool'[x] = pool[x]
      PROVE  NoLeak'
  <2>1. \A x \in Slots : Responding(x) => x # s /\ pool[x].ring
    BY <1>2 DEF Seen, Responding, PeerInv, SlotSockets
  <2> QED BY <1>2, <2>1, LeakKept DEF Seen
<1>3. CASE OnAccepted
  <2> PICK s \in Slots, t \in Slots :
        /\ Seen(s, "ACCEPTTING")
        /\ Least(t, FreeSlots)
        /\ \E r : pool' = [pool EXCEPT ![s] = r, ![t] = Accepting]
    BY <1>3 DEF OnAccepted
  <2>0. ~ pool[t].ring
    BY DEF Least, FreeSlots
  <2> PICK r : pool' = [[pool EXCEPT ![s] = r] EXCEPT ![t] = Accepting]
    OBVIOUS
  <2>1. \A x \in Slots : x # s /\ pool[x].ring => pool'[x] = pool[x]
    BY <2>0 DEF TypeInv, ServerTypes
  <2> QED BY <1>2, <1>3, <2>1 DEF OnAccepted
<1>4. CASE OnReadAnswered \/ OnReadQueued \/ OnWritten \/ OnClosed
  <2>1. PICK s \in Slots, e \in {"READING", "WRITING", "CLOSING"} :
          Seen(s, e) /\ \E r : pool' = [pool EXCEPT ![s] = r]
    BY <1>4 DEF OnReadAnswered, OnReadQueued, OnWritten, OnClosed
  <2>2. used' = used /\ dbconn' = dbconn
    BY <1>4 DEF OnReadAnswered, OnReadQueued, OnWritten, OnClosed
  <2>3. \A x \in Slots : x # s => pool'[x] = pool[x]
    BY <2>1, OtherSlots
  <2> QED BY <1>2, <2>1, <2>2, <2>3
<1>5. CASE OnAcceptedFull \/ OnReadExit
  BY <1>5, ExitLeak DEF OnAcceptedFull, OnReadExit
<1>6. CASE OnDbResponding
  <2> PICK s \in Slots :
        /\ Seen(s, "DB_RESPONDING")
        /\ \E r : pool' = [pool EXCEPT ![s] = r]
        /\ release_dbconn(pool[s].dbconn)
    BY <1>6 DEF OnDbResponding
  <2>1. /\ \A x \in Slots : x # s => pool'[x] = pool[x]
        /\ used' = [used EXCEPT ![pool[s].dbconn] = FALSE] /\ pool[s].dbconn \in DBConns
        /\ dbconn' = dbconn /\ pc = "wait" /\ pc' = "top"
    BY <1>6, OtherSlots DEF OnDbResponding, release_dbconn, Seen, TypeInv, HasConn
  <2>2. \A d \in DBConns : used'[d] => used[d] /\ d # pool[s].dbconn
    BY <2>1 DEF TypeInv, ServerTypes
  <2>3. \A d \in DBConns : used'[d] => \E x \in Slots : Owns(x, d)'
    <3> SUFFICES ASSUME NEW d \in DBConns, used'[d] PROVE \E x \in Slots : Owns(x, d)'
      OBVIOUS
    <3>1. PICK x \in Slots : Owns(x, d)
      BY <2>1, <2>2, NoPeerAssumption DEF NoLeak
    <3>2. x # s
      BY <2>2, <3>1 DEF Owns
    <3> QED BY <2>1, <3>1, <3>2 DEF Owns, Responding
  <2> QED BY <2>1, <2>3 DEF NoLeak, NoIdleConnection
<1> QED BY <1>1, <1>3, <1>4, <1>5, <1>6 DEF ServerLoop

LEMMA LeakStep == TypeInv /\ SlotInv /\ PeerInv /\ NoLeak /\ [Next]_vars => NoLeak'
<1> SUFFICES ASSUME TypeInv, SlotInv, PeerInv, NoLeak, [Next]_vars PROVE NoLeak'
  OBVIOUS
<1>1. CASE Crash
  BY <1>1, ExitLeak DEF Crash
<1>2. CASE World \/ UNCHANGED vars
  <2>1. /\ pool' = pool /\ used' = used /\ dbconn' = dbconn /\ pc' = pc /\ first' = first
    BY <1>2 DEF World, BackendRuns, OrphanRuns, CutLink, Connect, vars, serverVars, queueVars
  <2> QED BY <2>1 DEF NoLeak, NoIdleConnection, Owns, Responding
<1>3. CASE Kernel
  <2>1. used' = used /\ dbconn' = dbconn /\ pc' = pc /\ first' = first
    BY <1>3 DEF Kernel, CompleteAccept, CompleteRead, CompleteWrite, CompleteClose,
       CompleteDbRead, CompleteError, serverVars, queueVars
  <2>2. \A x \in Slots : pool'[x].last_event = pool[x].last_event /\ pool'[x].dbconn = pool[x].dbconn
    <3>1. CASE CompleteRead
      <4> PICK o \in inflight :
            pool' = [pool EXCEPT ![o.slot].buffer = Text("request", pool[o.slot].client_fd)]
        BY <3>1 DEF CompleteRead
      <4> DEFINE r == [pool[o.slot] EXCEPT !.buffer = Text("request", pool[o.slot].client_fd)]
      <4>1. o.slot \in Slots
        BY OpsSlots
      <4>2. r.last_event = pool[o.slot].last_event /\ r.dbconn = pool[o.slot].dbconn
        BY <4>1, SlotFields DEF ReqRes
      <4>3. pool' = [pool EXCEPT ![o.slot] = r]
        OBVIOUS
      <4> HIDE DEF r
      <4> QED BY <4>1, <4>2, <4>3, OtherSlots
    <3>2. CASE ~ CompleteRead
      BY <1>3, <3>2 DEF Kernel, CompleteAccept, CompleteWrite, CompleteClose,
         CompleteDbRead, CompleteError, serverVars
    <3> QED BY <3>1, <3>2
  <2>3. \A x \in Slots : \A d : Owns(x, d)' <=> Owns(x, d)
    BY <2>2 DEF Owns, Responding
  <2> QED BY <2>1, <2>3 DEF NoLeak, NoIdleConnection
<1>4. CASE Boot
  <2>1. /\ used' = used /\ dbconn' = dbconn /\ pc = "down" /\ pc' = "top"
        /\ \A x \in Slots : pool[x] = Zeroed
    BY <1>4 DEF Boot, PeerInv, DownIsClosed
  <2>2. \A x \in Slots : ~ Responding(x)
    BY <2>1, ZeroedFields DEF Responding
  <2> QED BY <2>1, <2>2, LeakKept
<1> QED BY <1>1, <1>2, <1>3, <1>4, DispatchLeak, LoopLeak DEF Next

\* No connection to the database leaks: one marked used is held by a live slot
\* or is the one the dispatcher has just taken (server.c:73-91, 196-230).
THEOREM LeakInvariant == Spec => []NoLeak
  BY LeakInit, LeakStep, TypeInvariant, SlotInvariant, PeerInvariant, PTL DEF Spec

\* No wake-up is missed: when the loop goes to sleep in io_uring_wait_cqe, a
\* request is left in the queue only if every database connection is taken,
\* also when a sender has refused a body and the connections are confused.
THEOREM NoConnectionIdles == Spec => []NoIdleConnection
<1>1. NoLeak => NoIdleConnection
  BY DEF NoLeak
<1> QED BY <1>1, LeakInvariant, PTL

\* What a proof about a server whose operations succeed assumes.
NoIoErrors == MaxIoErrors = 0

\* Without failed operations every live slot has something under way.
Progress ==
  /\ \A x \in Entries : ~ x.failed
  /\ \A s \in Slots : pool[s].ring => Completed(s) \/ HasOp(s) \/ s \in heap
  /\ pc # "down" => \E s \in Slots : Listener(s)

LEMMA ProgressInit == Init => Progress
<1> SUFFICES ASSUME Init PROVE Progress
  OBVIOUS
<1>1. pc = "down" /\ cq = <<>> /\ \A s \in Slots : pool[s] = Zeroed
  BY DEF Init
<1> QED BY <1>1, NoEntries, ZeroedFields DEF Progress

LEMMA ExitProgress ==
  ASSUME NEW answered, NEW links, Exit(answered, links)
  PROVE  Progress'
<1>1. pc' = "down" /\ cq' = <<>> /\ \A s \in Slots : pool'[s] = Zeroed
  BY DEF Exit
<1>2. Entries' = {}
  BY <1>1 DEF Entries
<1> QED BY <1>1, <1>2, ZeroedFields DEF Progress

LEMMA SubmitAdds ==
  ASSUME NEW ops, Submitted(ops) \/ NotSubmitted(ops)
  PROVE  sq' \cup inflight' = sq \cup inflight \cup ops
  BY DEF Submitted, NotSubmitted

LEMMA SubmitOne ==
  ASSUME NEW op, NEW s, Submit(Op(op, s))
  PROVE  HasOp(s)' /\ \A x : HasOp(x) => HasOp(x)'
<1>1. sq' \cup inflight' = sq \cup inflight \cup {Op(op, s)}
  BY SubmitAdds DEF Submit
<1> QED BY <1>1, OpFields DEF HasOp

\* A step that works on slot s alone, which does not stop listening, and leaves
\* it with something under way or gives it back.
LEMMA ProgressKept ==
  ASSUME Progress, NEW s \in Slots, ~ Listener(s),
         \A x \in Slots : x # s => pool'[x] = pool[x],
         \A x : HasOp(x) => HasOp(x)',
         \A x \in Entries' : x \in Entries,
         \A x \in Entries : x.slot # s => x \in Entries',
         \A x \in heap : x # s => x \in heap',
         pool'[s].ring => HasOp(s)' \/ s \in heap',
         pc # "down"
  PROVE  Progress'
<1>1. \A x : x # s /\ Completed(x) => Completed(x)'
  <2> TAKE x
  <2> HAVE x # s /\ Completed(x)
  <2>1. PICK y \in Entries : y.slot = x
    BY CompletedEntry
  <2>2. y \in Entries'
    BY <2>1
  <2> QED BY <2>1, <2>2 DEF Completed, Entries
<1>2. \A x \in Slots : pool'[x].ring => Completed(x)' \/ HasOp(x)' \/ x \in heap'
  <2> TAKE x \in Slots
  <2>1. CASE x = s
    BY <2>1
  <2>2. CASE x # s
    BY <1>1, <2>2 DEF Progress
  <2> QED BY <2>1, <2>2
<1>3. \E x \in Slots : Listener(x)'
  BY DEF Progress, Listener
<1> QED BY <1>2, <1>3 DEF Progress

LEMMA LoopProgress ==
  ASSUME TypeInv, SlotInv, PeerInv, Progress, ServerLoop
  PROVE  Progress'
<1>1. CASE OnError
  <2>1. Head(cq).failed /\ cq # <<>> /\ cq' = Tail(cq)
    BY <1>1 DEF OnError
  <2>2. Head(cq) \in Entries
    BY <2>1, EntriesTail DEF SlotInv
  <2> QED BY <2>1, <2>2 DEF Progress
<1>2. CASE OnAccepted
  <2>0. PICK s \in Slots, t \in Slots :
        /\ Seen(s, "ACCEPTTING")
        /\ Least(t, FreeSlots)
        /\ \E r : pool' = [pool EXCEPT ![s] = r, ![t] = Accepting]
        /\ \/ Submitted({Op("read", s), Op("accept", t)})
           \/ NotSubmitted({Op("read", s), Op("accept", t)})
           \/ /\ inflight' = inflight \cup sq \cup {Op("read", s)}
              /\ sq' = {Op("accept", t)}
    BY <1>2 DEF OnAccepted
  <2>1. PICK r : pool' = [[pool EXCEPT ![s] = r] EXCEPT ![t] = Accepting]
    BY <2>0
  <2>2. /\ \A x \in Entries' : x \in Entries
        /\ \A x \in Entries : x.slot # s => x \in Entries'
    BY <2>0, SeenEntry
  <2>3. sq' \cup inflight' = sq \cup inflight \cup {Op("read", s), Op("accept", t)}
    BY <2>0, SubmitAdds
  <2>4. HasOp(s)' /\ HasOp(t)' /\ \A x : HasOp(x) => HasOp(x)'
    BY <2>3, OpFields DEF HasOp
  <2>5. pool'[t] = Accepting /\ \A x \in Slots : x # s /\ x # t => pool'[x] = pool[x]
    BY <2>1 DEF TypeInv, ServerTypes
  <2>6. heap' = heap
    BY <1>2 DEF OnAccepted, queueVars
  <2>7. \A x : x # s /\ Completed(x) => Completed(x)'
    <3> TAKE x
    <3> HAVE x # s /\ Completed(x)
    <3>1. PICK y \in Entries : y.slot = x
      BY CompletedEntry
    <3>2. y \in Entries'
      BY <2>2, <3>1
    <3> QED BY <3>1, <3>2 DEF Completed, Entries
  <2>8. \A x \in Slots : pool'[x].ring => Completed(x)' \/ HasOp(x)' \/ x \in heap'
    BY <2>4, <2>5, <2>6, <2>7 DEF Progress
  <2>9. Listener(t)'
    BY <2>5, ZeroedFields DEF Listener
  <2> QED BY <2>2, <2>8, <2>9 DEF Progress
<1>3. CASE OnAcceptedFull \/ OnReadExit
  BY <1>3, ExitProgress DEF OnAcceptedFull, OnReadExit
<1>4. ASSUME NEW s \in Slots, NEW e, Seen(s, e), e # "ACCEPTTING"
      PROVE  /\ ~ Listener(s) /\ pc # "down"
             /\ \A x \in Entries' : x \in Entries
             /\ \A x \in Entries : x.slot # s => x \in Entries'
  BY <1>4, SeenEntry DEF Listener
<1>5. CASE OnReadAnswered \/ OnDbResponding \/ OnWritten
  <2>1. PICK s \in Slots, e \in {"READING", "DB_RESPONDING", "WRITING"} :
          /\ Seen(s, e)
          /\ \E r : pool' = [pool EXCEPT ![s] = r]
          /\ \E op : Submit(Op(op, s))
    BY <1>5 DEF OnReadAnswered, OnDbResponding, OnWritten
  <2>2. heap' = heap /\ \A x \in Slots : x # s => pool'[x] = pool[x]
    BY <1>5, <2>1, OtherSlots DEF OnReadAnswered, OnDbResponding, OnWritten, queueVars
  <2>3. HasOp(s)' /\ \A x : HasOp(x) => HasOp(x)'
    BY <2>1, SubmitOne
  <2> QED BY <1>4, <2>1, <2>2, <2>3, ProgressKept
<1>6. CASE OnReadQueued
  <2>1. PICK s \in Slots :
          /\ Seen(s, "READING")
          /\ \E r : pool' = [pool EXCEPT ![s] = r]
          /\ Queue!queu_push(s)
    BY <1>6 DEF OnReadQueued
  <2>2. /\ heap' = heap \cup {s} /\ sq' = sq /\ inflight' = inflight
        /\ \A x \in Slots : x # s => pool'[x] = pool[x]
    BY <1>6, <2>1, OtherSlots DEF OnReadQueued, Queue!queu_push
  <2>3. \A x : HasOp(x) => HasOp(x)'
    BY <2>2 DEF HasOp
  <2> QED BY <1>4, <2>1, <2>2, <2>3, ProgressKept
<1>7. CASE OnClosed
  <2>1. PICK s \in Slots : Seen(s, "CLOSING") /\ pool' = [pool EXCEPT ![s] = Zeroed]
    BY <1>7 DEF OnClosed
  <2>2. /\ heap' = heap /\ sq' = sq /\ inflight' = inflight
        /\ pool'[s] = Zeroed /\ \A x \in Slots : x # s => pool'[x] = pool[x]
    BY <1>7, <2>1, OtherSlots DEF OnClosed, queueVars
  <2>3. \A x : HasOp(x) => HasOp(x)'
    BY <2>2 DEF HasOp
  <2> QED BY <1>4, <2>1, <2>2, <2>3, ProgressKept, ZeroedFields
<1> QED BY <1>1, <1>2, <1>3, <1>5, <1>6, <1>7 DEF ServerLoop

LEMMA DispatchProgress ==
  ASSUME TypeInv, SlotInv, Progress, QueuDispatch
  PROVE  Progress'
<1>1. CASE DispatchStart \/ DispatchNoConn \/ DispatchEmpty
  <2>1. /\ pool' = pool /\ cq' = cq /\ heap' = heap /\ sq' = sq /\ inflight' = inflight
        /\ pc # "down"
    BY <1>1 DEF DispatchStart, DispatchNoConn, DispatchEmpty, queueVars, ringVars
  <2>2. Entries' = Entries
    BY <2>1 DEF Entries
  <2> QED BY <2>1, <2>2 DEF Progress, Listener, Completed, HasOp
<1>2. CASE DispatchRefuse \/ DispatchSend
  <2>1. PICK s \in Slots :
          /\ Queue!queu_pop(s)
          /\ \E r : pool' = [pool EXCEPT ![s] = r]
          /\ \E op : Submit(Op(op, s))
    BY <1>2 DEF DispatchRefuse, DispatchSend, Submit
  <2>2. s \in heap /\ heap' = heap \ {s}
    BY <2>1 DEF Queue!queu_pop, SlotInv, QP!QInv, QP!NoDangling
  <2>3. /\ cq' = cq /\ pc # "down" /\ \A x \in Slots : x # s => pool'[x] = pool[x]
    BY <1>2, <2>1, OtherSlots DEF DispatchRefuse, DispatchSend
  <2>4. ~ Listener(s)
    BY <2>2 DEF SlotInv, PushedOnce, Listener
  <2>5. HasOp(s)' /\ \A x : HasOp(x) => HasOp(x)'
    BY <2>1, SubmitOne
  <2>6. Entries' = Entries
    BY <2>3 DEF Entries
  <2> QED BY <2>2, <2>3, <2>4, <2>5, <2>6, ProgressKept
<1>3. CASE DispatchFatal
  BY <1>3, ExitProgress DEF DispatchFatal
<1> QED BY <1>1, <1>2, <1>3 DEF QueuDispatch

LEMMA KernelProgress ==
  ASSUME NoIoErrors, TypeInv, SlotInv, Progress, Kernel
  PROVE  Progress'
<1>1. ~ CompleteError
  <2>1. faults.io \in Nat
    BY DEF TypeInv, FaultTypes
  <2>2. ~ (faults.io < 0)
    BY <2>1
  <2> QED BY <2>2 DEF CompleteError, NoIoErrors
<1>2. PICK o \in inflight, fd \in Clients \cup {NULL} : Complete(o, Cqe(o.slot, FALSE, fd))
  <2>1. CASE CompleteAccept
    <3>1. Head(backlog) \in Clients
      BY <2>1, HeadTailProperties, EmptySeq DEF CompleteAccept, TypeInv, PeerTypes
    <3> QED BY <2>1, <3>1 DEF CompleteAccept
  <2>2. CASE ~ CompleteAccept
    BY <1>1, <2>2 DEF Kernel, CompleteRead, CompleteWrite, CompleteClose, CompleteDbRead
  <2> QED BY <2>1, <2>2
<1>3. /\ o.slot \in Slots
      /\ Cqe(o.slot, FALSE, fd) \in Cqes
      /\ Cqe(o.slot, FALSE, fd).slot = o.slot /\ ~ Cqe(o.slot, FALSE, fd).failed
  BY OpsSlots DEF Cqe, Cqes
<1> PICK e : e = Cqe(o.slot, FALSE, fd)
  OBVIOUS
<1>4. Entries' = Entries \cup {e}
  BY <1>2, <1>3, EntriesAppend DEF Complete
<1>5. inflight' = inflight \ {o} /\ sq' = sq /\ heap' = heap /\ pc' = pc
  BY <1>1, <1>2 DEF Kernel, Complete, CompleteAccept, CompleteRead, CompleteWrite, CompleteClose,
     CompleteDbRead, serverVars, queueVars
<1>6. \A x \in Slots : pool'[x].ring = pool[x].ring /\ pool'[x].last_event = pool[x].last_event
  <2>1. CASE CompleteRead
    <3> PICK p \in inflight :
          pool' = [pool EXCEPT ![p.slot].buffer = Text("request", pool[p.slot].client_fd)]
      BY <2>1 DEF CompleteRead
    <3> DEFINE r == [pool[p.slot] EXCEPT !.buffer = Text("request", pool[p.slot].client_fd)]
    <3>1. p.slot \in Slots
      BY OpsSlots
    <3>2. r.last_event = pool[p.slot].last_event /\ r.ring = pool[p.slot].ring
      BY <3>1, SlotFields DEF ReqRes
    <3>3. pool' = [pool EXCEPT ![p.slot] = r]
      OBVIOUS
    <3> HIDE DEF r
    <3> QED BY <3>1, <3>2, <3>3, OtherSlots
  <2>2. CASE ~ CompleteRead
    BY <1>1, <2>2 DEF Kernel, CompleteAccept, CompleteWrite, CompleteClose, CompleteDbRead,
       serverVars
  <2> QED BY <2>1, <2>2
<1>7. Completed(o.slot)' /\ \A x : Completed(x) => Completed(x)'
  <2>1. \A x : Completed(x)' <=> \E y \in Entries' : y.slot = x
    BY DEF Completed, Entries
  <2>2. e \in Entries' /\ e.slot = o.slot /\ \A y \in Entries : y \in Entries'
    BY <1>3, <1>4
  <2> QED BY <2>1, <2>2, CompletedEntry
<1>8. \A x : HasOp(x) => HasOp(x)' \/ x = o.slot
  BY <1>5 DEF HasOp
<1>9. \A x \in Slots : pool'[x].ring => Completed(x)' \/ HasOp(x)' \/ x \in heap'
  BY <1>5, <1>6, <1>7, <1>8 DEF Progress
<1>10. \A x \in Slots : Listener(x) => Listener(x)'
  BY <1>6 DEF Listener
<1> QED BY <1>3, <1>4, <1>5, <1>9, <1>10 DEF Progress

LEMMA ProgressStep ==
  NoIoErrors /\ TypeInv /\ SlotInv /\ PeerInv /\ Progress /\ [Next]_vars => Progress'
<1> SUFFICES ASSUME NoIoErrors, TypeInv, SlotInv, PeerInv, Progress, [Next]_vars PROVE Progress'
  OBVIOUS
<1>1. CASE Crash
  BY <1>1, ExitProgress DEF Crash
<1>2. CASE World \/ UNCHANGED vars
  <2>1. /\ pool' = pool /\ cq' = cq /\ heap' = heap /\ sq' = sq /\ inflight' = inflight /\ pc' = pc
    BY <1>2 DEF World, BackendRuns, OrphanRuns, CutLink, Connect, vars, serverVars, queueVars, ringVars
  <2>2. Entries' = Entries
    BY <2>1 DEF Entries
  <2> QED BY <2>1, <2>2 DEF Progress, Listener, Completed, HasOp
<1>3. CASE Boot
  <2>1. /\ pool' = [pool EXCEPT ![0] = Accepting] /\ 0 \in Slots
        /\ inflight' = {Op("accept", 0)} /\ cq' = cq /\ cq = <<>>
        /\ \A s \in Slots : pool[s] = Zeroed
    BY <1>3, SlotsNonEmpty DEF Boot, SlotInv, DownIsEmpty, PeerInv, DownIsClosed
  <2>2. pool'[0] = Accepting /\ \A s \in Slots : s # 0 => pool'[s] = Zeroed
    BY <2>1, OtherSlots
  <2>3. HasOp(0)' /\ Listener(0)' /\ Entries' = {}
    BY <2>1, <2>2, OpFields, ZeroedFields DEF HasOp, Listener, Entries
  <2> QED BY <2>1, <2>2, <2>3, ZeroedFields DEF Progress
<1> QED BY <1>1, <1>2, <1>3, DispatchProgress, LoopProgress, KernelProgress DEF Next

\* As long as no operation fails, every slot that is in use has an operation
\* under way or completed, or waits in the queue, and one of them listens.
THEOREM ProgressInvariant == NoIoErrors => (Spec => []Progress)
<1>1. SUFFICES ASSUME NoIoErrors PROVE Spec => []Progress
  OBVIOUS
<1>2. TypeInv /\ SlotInv /\ PeerInv /\ Progress /\ [Next]_vars => Progress'
  BY <1>1, ProgressStep
<1> QED BY <1>2, ProgressInit, TypeInvariant, SlotInvariant, PeerInvariant, PTL DEF Spec

\* While the process runs, exactly one slot waits for the next peer, as long as
\* no operation fails: no sequence of requests, failed submits, lost
\* connections and restarts leaves a server that runs and cannot be reached.
THEOREM ServerListens == NoIoErrors => (Spec => []Listening)
<1>1. PeerInv /\ SlotInv /\ Progress => Listening
  <2> SUFFICES ASSUME PeerInv, SlotInv, Progress, pc # "down"
               PROVE  \E s \in Slots :
                        /\ Waiting(s)
                        /\ \A t \in Slots : pool[t].ring /\ pool[t].last_event = "ACCEPTTING" <=> t = s
    BY DEF Listening
  <2> PICK s \in Slots : Listener(s)
    BY DEF Progress
  <2>1. s \notin heap
    BY DEF Listener, SlotInv, PushedOnce
  <2>2. Waiting(s)
    BY <2>1, WaitingParts DEF Progress, Listener
  <2>3. \A t \in Slots : Listener(t) <=> t = s
    BY DEF PeerInv, OneListener
  <2> QED BY <2>2, <2>3 DEF Listener
<1>2. SUFFICES ASSUME NoIoErrors PROVE Spec => []Listening
  OBVIOUS
<1>3. Spec => []Progress
  BY <1>2, ProgressInvariant
<1> QED BY <1>1, <1>3, SlotInvariant, PeerInvariant, PTL

-----------------------------------------------------------------------------
(***************************************************************************)
(* Who is left when the server comes to rest: only those whose request the *)
(* list has forgotten, and so nobody while the list holds one request.     *)
(***************************************************************************)
\* Nobody but the queue forgets a peer: when the server comes to rest, asleep
\* with nothing to do but accept, a peer that holds an open connection for an
\* answer that nothing will produce is one whose cell queu_pop has dropped from
\* the list.  None is lost in a slot, on a connection to the database or on a
\* missed wake-up, for any number of slots, connections and peers.
THEOREM OnlyTheQueueForgets == NoIoErrors => (Spec => []LeftAreForgotten)
<1>1. TypeInv /\ SlotInv /\ PeerInv /\ NoLeak /\ Progress => LeftAreForgotten
  <2> SUFFICES ASSUME TypeInv, SlotInv, PeerInv, NoLeak, Progress, AtRest
               PROVE  /\ first = NULL
                      /\ \A c \in Clients : peer[c] = "open" => \E s \in heap : Holds(s, c)
    BY DEF LeftAreForgotten, Holds
  <2>1. Entries = {} /\ sq = {} /\ pc = "wait" /\ \A o \in inflight : o.op = "accept"
    BY NoEntries DEF AtRest
  <2>2. \A x \in Slots : HasOp(x) => pool[x].last_event = "ACCEPTTING"
    BY <2>1, EventOfOp DEF HasOp
  <2>3. \A x : ~ Completed(x)
    BY <2>1, CompletedEntry
  <2>4. first = NULL
    <3>1. 0 \in DBConns /\ 0 # NULL
      BY PoolsAssumption, NoPeerAssumption DEF DBConns
    <3>2. SUFFICES ASSUME first # NULL PROVE FALSE
      OBVIOUS
    <3>3. PICK x \in Slots : Owns(x, 0)
      BY <2>1, <3>1, <3>2 DEF NoLeak, NoIdleConnection
    <3>4. pool[x].last_event = "DB_RESPONDING" /\ pool[x].ring /\ x \notin heap
      BY <3>3 DEF Owns, Responding, PeerInv, SlotSockets, SlotInv, PushedOnce
    <3> QED BY <2>2, <2>3, <3>4 DEF Progress
  <2>5. ASSUME NEW c \in Clients, peer[c] = "open" PROVE \E s \in heap : Holds(s, c)
    <3>1. PICK s \in Slots : Holds(s, c)
      BY <2>1, <2>5 DEF PeerInv, Known
    <3>2. pool[s].ring /\ pool[s].last_event # "ACCEPTTING"
      BY <3>1, NoPeerAssumption DEF PeerInv, SlotSockets, Holds
    <3> QED BY <2>2, <2>3, <3>1, <3>2 DEF Progress
  <2> QED BY <2>4, <2>5
<1>2. SUFFICES ASSUME NoIoErrors PROVE Spec => []LeftAreForgotten
  OBVIOUS
<1>3. Spec => []Progress
  BY <1>2, ProgressInvariant
<1> QED BY <1>1, <1>3, TypeInvariant, SlotInvariant, PeerInvariant, LeakInvariant, PTL

\* One slot listens, one is being served, every connection has one: there is
\* none left for a second cell.
FewSlots == NSlots <= NConns + 2

\* The list holds one cell at most.
OneCell == \A x \in heap : x = first

\* Owners are distinct: the slots that have none of the connections are as many
\* as the pools' sizes leave.
LEMMA SlotsBesideOwners ==
  ASSUME NEW x \in Slots, NEW y \in Slots, NEW z \in Slots,
         x # y, x # z, y # z,
         ~ Responding(x), ~ Responding(y), ~ Responding(z),
         \A d \in DBConns : \E s \in Slots : Owns(s, d)
  PROVE  NConns + 3 <= NSlots
<1> DEFINE rest == ((Slots \ {x}) \ {y}) \ {z}
           conn == [s \in rest |-> IF pool[s].dbconn \in DBConns THEN pool[s].dbconn ELSE 0]
<1>1. NSlots \in Nat \ {0} /\ NConns \in Nat \ {0}
  BY PoolsAssumption
<1>2. IsFiniteSet(Slots) /\ Cardinality(Slots) = NSlots
  <2>1. 0 \in Int /\ NSlots - 1 \in Int /\ ~ (0 > NSlots - 1) /\ (NSlots - 1) - 0 + 1 = NSlots
    BY <1>1
  <2> QED BY <2>1, FS_Interval DEF Slots
<1>3. Cardinality(DBConns) = NConns
  <2>1. 0 \in Int /\ NConns - 1 \in Int /\ ~ (0 > NConns - 1) /\ (NConns - 1) - 0 + 1 = NConns
    BY <1>1
  <2> QED BY <2>1, FS_Interval DEF DBConns
<1>4. IsFiniteSet(rest) /\ Cardinality(rest) = NSlots - 3
  <2> PICK A, B : A = Slots \ {x} /\ B = A \ {y}
    OBVIOUS
  <2>1. IsFiniteSet(A) /\ Cardinality(A) = NSlots - 1
    BY <1>2, FS_RemoveElement
  <2>2. IsFiniteSet(B) /\ Cardinality(B) = (NSlots - 1) - 1
    <3>1. y \in A
      OBVIOUS
    <3> QED BY <2>1, <3>1, FS_RemoveElement
  <2>3. IsFiniteSet(rest) /\ Cardinality(rest) = ((NSlots - 1) - 1) - 1
    <3>1. z \in B /\ rest = B \ {z}
      OBVIOUS
    <3> HIDE DEF rest
    <3> QED BY <2>2, <3>1, FS_RemoveElement
  <2> QED BY <1>1, <2>3
<1>5. conn \in Surjection(rest, DBConns)
  <2>1. conn \in [rest -> DBConns]
    BY <1>1 DEF DBConns
  <2>2. \A d \in DBConns : \E s \in rest : conn[s] = d
    BY DEF Owns
  <2> QED BY <2>1, <2>2 DEF Surjection
<1>6. Cardinality(DBConns) <= Cardinality(rest)
  BY <1>4, <1>5, FS_Surjection
<1> QED BY <1>1, <1>3, <1>4, <1>6

LEMMA OneCellStep ==
  ASSUME NoIoErrors, FewSlots, TypeInv, SlotInv, NoLeak, Progress, OneCell, [Next]_vars
  PROVE  OneCell'
<1>1. ASSUME NEW s \in Slots, Seen(s, "READING"), Queue!queu_push(s) PROVE OneCell'
  <2>1. heap = {}
    <3> SUFFICES ASSUME NEW y \in heap PROVE FALSE
      OBVIOUS
    <3>1. y = first /\ first # NULL /\ y \in Slots
      BY NoPeerAssumption DEF OneCell, TypeInv, QueueTypes, Queue!QTypeOK
    <3>2. pc = "wait" /\ pool[s].last_event = "READING" /\ s \notin heap
      BY <1>1 DEF Seen, Queue!queu_push
    <3>3. \A d \in DBConns : \E x \in Slots : Owns(x, d)
      BY <3>1, <3>2, NoPeerAssumption DEF NoLeak, NoIdleConnection
    <3>4. PICK t \in Slots : Listener(t)
      BY <3>2 DEF Progress
    <3>5. pool[y].last_event = "READING"
      BY DEF SlotInv, PushedOnce
    <3>6. s # y /\ s # t /\ y # t /\ ~ Responding(s) /\ ~ Responding(y) /\ ~ Responding(t)
      BY <3>2, <3>4, <3>5 DEF Listener, Responding
    <3>7. NConns + 3 <= NSlots
      BY <3>1, <3>3, <3>6, SlotsBesideOwners
    <3> QED BY <3>7, PoolsAssumption DEF FewSlots
  <2>2. first = NULL
    BY <2>1 DEF SlotInv, QP!QInv, QP!NoDangling
  <2> QED BY <1>1, <2>1, <2>2 DEF Queue!queu_push, OneCell
<1>2. ASSUME NEW s, Queue!queu_pop(s) PROVE OneCell'
  BY <1>2 DEF Queue!queu_pop, OneCell
<1>3. ASSUME UNCHANGED queueVars PROVE OneCell'
  BY <1>3 DEF queueVars, OneCell
<1>4. ASSUME NEW answered, NEW links, Exit(answered, links) PROVE OneCell'
  BY <1>4 DEF Exit, OneCell
<1>5. CASE QueuDispatch
  BY <1>2, <1>3, <1>4, <1>5 DEF QueuDispatch, DispatchStart, DispatchNoConn, DispatchEmpty,
     DispatchRefuse, DispatchSend, DispatchFatal
<1>6. CASE ServerLoop
  BY <1>1, <1>3, <1>4, <1>6 DEF ServerLoop, OnError, OnAccepted, OnAcceptedFull, OnReadAnswered,
     OnReadQueued, OnReadExit, OnDbResponding, OnWritten, OnClosed
<1>7. CASE Kernel \/ World
  BY <1>3, <1>7 DEF Kernel, CompleteAccept, CompleteRead, CompleteWrite, CompleteClose,
     CompleteDbRead, CompleteError, World, BackendRuns, OrphanRuns, CutLink, Connect
<1>8. CASE Crash \/ Boot \/ UNCHANGED vars
  BY <1>3, <1>4, <1>8 DEF Crash, Boot, vars, OneCell, Queue!QInit
<1> QED BY <1>5, <1>6, <1>7, <1>8 DEF Next

\* When the server comes to rest no peer holds an open connection for an answer
\* that nothing will produce, as long as the slots are too few for two requests
\* to wait at once.  (With one more slot queu_pop can forget a request.)
THEOREM NobodyIsLeft == NoIoErrors /\ FewSlots => (Spec => []NobodyLeftWaiting)
<1>1. SUFFICES ASSUME NoIoErrors, FewSlots PROVE Spec => []NobodyLeftWaiting
  OBVIOUS
<1>2. Spec => []Progress /\ []LeftAreForgotten
  BY <1>1, ProgressInvariant, OnlyTheQueueForgets, PTL
<1>3. Init => OneCell
  BY DEF Init, OneCell, Queue!QInit
<1>4. TypeInv /\ SlotInv /\ NoLeak /\ Progress /\ OneCell /\ [Next]_vars => OneCell'
  BY <1>1, OneCellStep
<1>5. TypeInv /\ OneCell /\ LeftAreForgotten => NobodyLeftWaiting
  BY NoPeerAssumption DEF LeftAreForgotten, NobodyLeftWaiting, OneCell, TypeInv, QueueTypes, Queue!QTypeOK
<1> QED BY <1>2, <1>3, <1>4, <1>5, TypeInvariant, SlotInvariant, LeakInvariant, PTL DEF Spec
-----------------------------------------------------------------------------
(***************************************************************************)
(* A transaction is applied at most once: the command of a request leaves  *)
(* the process once, and then runs on one connection or behind a lost one. *)
(***************************************************************************)
\* A peer whose request has not been handed to the database.
Fresh(c) ==
  \/ peer[c] \in {"idle", "backlog"}
  \/ \E x \in Entries : Arrived(x) /\ x.fd = c
  \/ \E s \in Slots : Holds(s, c) /\ pool[s].last_event = "READING"

\* A backend runs the command of peer c (on connection d).
RunsOn(d, c) == pg[d].link = "up" /\ pg[d].query = c /\ pg[d].reply = "none"
Runs(c) == \E d \in DBConns : RunsOn(d, c)

CommitInv ==
  \A c \in Clients :
    /\ commits[c] <= 1
    /\ Fresh(c) \/ Runs(c) \/ c \in orphans => commits[c] = 0
    /\ Fresh(c) => ~ Runs(c) /\ c \notin orphans
    /\ Runs(c) => c \notin orphans
    /\ \A d, e \in DBConns : RunsOn(d, c) /\ RunsOn(e, c) => d = e

LEMMA CommitInit == Init => CommitInv
<1> SUFFICES ASSUME Init PROVE CommitInv
  OBVIOUS
<1>1. \A c \in Clients : commits[c] = 0
  BY DEF Init
<1>2. \A d \in DBConns, c \in Clients : ~ RunsOn(d, c)
  BY NoPeerAssumption DEF Init, FreshPg, RunsOn
<1>3. orphans = {}
  BY DEF Init
<1> QED BY <1>1, <1>2, <1>3 DEF CommitInv, Runs

\* A step that works on the slots of S alone makes nobody fresh again.
LEMMA FreshMoves ==
  ASSUME TypeInv, NEW S \in SUBSET Slots,
         \A x \in Slots : x \notin S => pool'[x] = pool[x],
         \A x \in S : pool'[x].last_event = "READING" => Fresh(pool'[x].client_fd),
         \A x \in Entries' : x \in Entries /\ x.slot \notin S,
         peer' = peer
  PROVE  \A c \in Clients : Fresh(c)' => Fresh(c)
<1> TAKE c \in Clients
<1>1. \A x \in Entries' : Arrived(x)' => x \in Entries /\ Arrived(x)
  BY EntryTypes DEF Arrived, Finished
<1>2. \A s \in Slots : Holds(s, c)' /\ pool'[s].last_event = "READING" => Fresh(c)
  BY DEF Holds, Fresh
<1> QED BY <1>1, <1>2 DEF Fresh

LEMMA FreshMove ==
  ASSUME TypeInv, NEW s \in Slots,
         \A x \in Slots : x # s => pool'[x] = pool[x],
         pool'[s].last_event = "READING" => Fresh(pool'[s].client_fd),
         \A x \in Entries' : x \in Entries /\ x.slot # s,
         peer' = peer
  PROVE  \A c \in Clients : Fresh(c)' => Fresh(c)
<1> PICK S : S = {s}
  OBVIOUS
<1> QED BY FreshMoves

LEMMA CommitKept ==
  ASSUME CommitInv, commits' = commits, orphans' = orphans,
         \A c \in Clients : Fresh(c)' => Fresh(c),
         \A d \in DBConns, c \in Clients : RunsOn(d, c)' => RunsOn(d, c)
  PROVE  CommitInv'
<1>1. \A c \in Clients : Runs(c)' => Runs(c)
  BY DEF Runs
<1> QED BY <1>1 DEF CommitInv

\* The command of a waiting request is about a peer that is fresh, and that is
\* not fresh any more once its slot has left the state READING.
LEMMA WaitingIsFresh ==
  ASSUME TypeInv, SlotInv, PeerInv, NEW s \in heap
  PROVE  /\ s \in Slots /\ pool[s].buffer.about \in Clients
         /\ Fresh(pool[s].buffer.about) /\ Holds(s, pool[s].buffer.about)
         /\ peer[pool[s].buffer.about] = "open"
<1>1. s \in Slots /\ pool[s].last_event = "READING"
  BY DEF TypeInv, QueueTypes, Queue!QTypeOK, SlotInv, PushedOnce
<1>2. pool[s].client_fd \in Clients /\ peer[pool[s].client_fd] = "open"
  BY <1>1 DEF PeerInv, SlotSockets
<1>3. pool[s].buffer.about = pool[s].client_fd
  BY DEF PeerInv, OwnRequest
<1> QED BY <1>1, <1>2, <1>3 DEF Fresh, Holds

LEMMA SentRuns ==
  ASSUME TypeInv, NEW d \in DBConns, NEW c \in Clients, NEW e \in DBConns, NEW x \in Clients,
         Sent(d, c)[e].link = "up", Sent(d, c)[e].query = x, Sent(d, c)[e].reply = "none"
  PROVE  RunsOn(e, x) \/ (e = d /\ x = c /\ pg[d].query = NULL)
<1>1. CASE Sent(d, c) = pg
  BY <1>1 DEF RunsOn
<1>2. CASE Sent(d, c) # pg /\ e # d
  BY <1>2 DEF RunsOn, Sent, TypeInv, DbTypes
<1>3. CASE Sent(d, c) # pg /\ e = d
  <2>1. Sent(d, c) = [pg EXCEPT ![d].query = c] /\ pg[d].query = NULL
    BY <1>3 DEF Sent
  <2>2. pg \in [DBConns -> Pgs]
    BY DEF TypeInv, DbTypes
  <2>3. Sent(d, c)[d].query = c
    BY <2>1, <2>2 DEF Pgs
  <2> QED BY <1>3, <2>1, <2>3
<1> QED BY <1>1, <1>2, <1>3

LEMMA ExitCommits ==
  ASSUME TypeInv, CommitInv, NEW answered, NEW links, Exit(answered, links),
         \A d \in DBConns, c \in Clients :
           links[d].link = "up" /\ links[d].query = c /\ links[d].reply = "none"
             => RunsOn(d, c) \/ (Fresh(c) /\ peer[c] # "idle")
  PROVE  CommitInv'
<1>1. /\ pc' = "down" /\ cq' = <<>> /\ commits' = commits
      /\ pool' = [s \in Slots |-> Zeroed] /\ pg' = [d \in DBConns |-> FreshPg]
      /\ orphans' = orphans \cup Running(links)
      /\ peer' = [c \in Clients |-> IF peer[c] = "idle" THEN "idle" ELSE "closed"]
  BY DEF Exit
<1>2. \A d \in DBConns, c \in Clients : ~ RunsOn(d, c)'
  BY <1>1, NoPeerAssumption DEF RunsOn, FreshPg
<1>3. Entries' = {}
  BY <1>1 DEF Entries
<1>4. \A c \in Clients : Fresh(c)' => peer[c] = "idle" /\ Fresh(c)
  BY <1>1, <1>3, ZeroedFields DEF Fresh
<1>5. \A c \in Clients : c \in Running(links) => Runs(c) \/ (Fresh(c) /\ peer[c] # "idle")
  BY DEF Running, Runs
<1> QED BY <1>1, <1>2, <1>4, <1>5 DEF CommitInv, Runs

LEMMA DispatchCommits ==
  ASSUME TypeInv, SlotInv, PeerInv, CommitInv, QueuDispatch
  PROVE  CommitInv'
<1>1. CASE DispatchStart \/ DispatchNoConn \/ DispatchEmpty
  <2>1. pool' = pool /\ cq' = cq /\ peer' = peer /\ pg' = pg /\ commits' = commits /\ orphans' = orphans
    BY <1>1 DEF DispatchStart, DispatchNoConn, DispatchEmpty, ringVars, dbVars, peerVars
  <2> QED BY <2>1, CommitKept DEF Fresh, Entries, Arrived, Finished, Holds, RunsOn
<1>2. ASSUME NEW s \in Slots, Queue!queu_pop(s), cq' = cq
      PROVE  /\ s \in heap
             /\ \A x \in Entries' : x \in Entries /\ x.slot # s
  <2>1. s \in heap
    BY <1>2 DEF Queue!queu_pop, SlotInv, QP!QInv, QP!NoDangling
  <2>2. ~ Completed(s)
    BY <2>1, WaitingParts DEF SlotInv, PushedOnce
  <2>3. Entries' = Entries
    BY <1>2 DEF Entries
  <2> QED BY <2>1, <2>2, <2>3, CompletedEntry
<1>3. CASE DispatchRefuse
  <2> PICK s \in Slots :
        /\ Queue!queu_pop(s)
        /\ pool' = [pool EXCEPT ![s] =
                     Writing([@ EXCEPT !.dbconn = dbconn, !.db_data = "freed"],
                             Text("UNPROCESSABLE", pool[s].buffer.about))]
    BY <1>3 DEF DispatchRefuse
  <2> DEFINE q == [pool[s] EXCEPT !.dbconn = dbconn, !.db_data = "freed"]
             w == Writing(q, Text("UNPROCESSABLE", pool[s].buffer.about))
  <2>1. q \in ReqRes
    BY SlotFields DEF ReqRes, TypeInv, ServerTypes
  <2>2. w.last_event = "WRITING"
    <3> HIDE DEF q
    <3> QED BY <2>1 DEF Writing, ReqRes
  <2>3. /\ pool' = [pool EXCEPT ![s] = w] /\ cq' = cq /\ peer' = peer
        /\ pg' = pg /\ commits' = commits /\ orphans' = orphans
    BY <1>3 DEF DispatchRefuse, peerVars, dbVars
  <2> HIDE DEF w
  <2>4. pool'[s] = w /\ \A x \in Slots : x # s => pool'[x] = pool[x]
    BY <2>3, OtherSlots
  <2>5. \A c \in Clients : Fresh(c)' => Fresh(c)
    BY <1>2, <2>2, <2>3, <2>4, FreshMove
  <2> QED BY <2>3, <2>5, CommitKept DEF RunsOn
<1>4. CASE DispatchSend
  <2>0. PICK s \in Slots :
        /\ Queue!queu_pop(s)
        /\ pg' = Sent(dbconn, pool[s].buffer.about)
        /\ pool' = [pool EXCEPT ![s] =
                     [@ EXCEPT !.dbconn = dbconn, !.db_data = "freed",
                               !.db_response_handler = pool[s].db_request_sender,
                               !.last_event = "DB_RESPONDING"]]
    BY <1>4 DEF DispatchSend, PQsendQuery
  <2> DEFINE r == [pool[s] EXCEPT !.dbconn = dbconn, !.db_data = "freed",
                               !.db_response_handler = pool[s].db_request_sender,
                               !.last_event = "DB_RESPONDING"]
  <2>1. r.last_event = "DB_RESPONDING" /\ r.client_fd = pool[s].client_fd
    BY SlotFields DEF ReqRes
  <2>2. /\ pool' = [pool EXCEPT ![s] = r] /\ cq' = cq /\ peer' = peer
        /\ commits' = commits /\ orphans' = orphans
    BY <1>4, <2>0 DEF DispatchSend, peerVars
  <2> HIDE DEF r
  <2>3. pool'[s] = r /\ \A x \in Slots : x # s => pool'[x] = pool[x]
    BY <2>2, OtherSlots
  <2> PICK a : a = pool[s].buffer.about
    OBVIOUS
  <2> PICK d : d = dbconn
    OBVIOUS
  <2>4. a \in Clients /\ Fresh(a) /\ Holds(s, a) /\ peer[a] = "open" /\ d \in DBConns
    BY <1>2, <1>4, <2>0, <2>2, WaitingIsFresh, NoPeerAssumption DEF DispatchSend, TypeInv, ServerTypes
  <2>5. \A c \in Clients : Fresh(c)' => Fresh(c)
    BY <1>2, <2>0, <2>1, <2>2, <2>3, FreshMove
  <2>6. ~ Fresh(a)'
    <3>1. \A x \in Slots : Holds(x, a)' => x = s
      BY <2>1, <2>3, <2>4, NoPeerAssumption DEF PeerInv, OneHolder, Holds
    <3>2. \A x \in Entries' : ~ (Arrived(x)' /\ x.fd = a)
      <4> TAKE x \in Entries'
      <4>1. x \in Entries /\ x.slot # s /\ pool'[x.slot] = pool[x.slot]
        BY <1>2, <2>0, <2>2, <2>3, EntryTypes
      <4> QED BY <2>4, <4>1 DEF PeerInv, NewSockets, Arrived, Finished
    <3> QED BY <2>1, <2>2, <2>3, <2>4, <3>1, <3>2 DEF Fresh
  <2>7. \A e \in DBConns, c \in Clients :
           RunsOn(e, c)' => RunsOn(e, c) \/ (e = d /\ c = a /\ pg[d].query = NULL)
    BY <2>0, <2>4, SentRuns DEF RunsOn
  <2>8. pg[d].query = NULL => \A c \in Clients : ~ RunsOn(d, c)
    BY NoPeerAssumption DEF RunsOn
  <2> QED BY <2>2, <2>4, <2>5, <2>6, <2>7, <2>8 DEF CommitInv, Runs
<1>5. CASE DispatchFatal
  <2>1. first \in heap /\ dbconn \in DBConns
    BY <1>5, NoPeerAssumption DEF DispatchFatal, SlotInv, QP!QInv, QP!NoDangling, TypeInv, ServerTypes
  <2> PICK a, d : a = pool[first].buffer.about /\ d = dbconn
    OBVIOUS
  <2>2. Fresh(a) /\ peer[a] = "open" /\ a \in Clients
    BY <2>1, WaitingIsFresh
  <2> PICK links : links = Sent(d, a)
    OBVIOUS
  <2>3. Exit(got, links)
    BY <1>5 DEF DispatchFatal
  <2>4. \A e \in DBConns, c \in Clients :
           links[e].link = "up" /\ links[e].query = c /\ links[e].reply = "none"
             => RunsOn(e, c) \/ (Fresh(c) /\ peer[c] # "idle")
    BY <2>1, <2>2, SentRuns
  <2> QED BY <2>3, <2>4, ExitCommits
<1> QED BY <1>1, <1>3, <1>4, <1>5 DEF QueuDispatch

LEMMA ExitsCommit ==
  ASSUME TypeInv, CommitInv, NEW answered, Exit(answered, pg)
  PROVE  CommitInv'
  BY ExitCommits DEF RunsOn

LEMMA ClearedRuns ==
  ASSUME TypeInv, NEW d \in DBConns, pg' = [pg EXCEPT ![d] = Cleared(d)]
  PROVE  \A e \in DBConns, c \in Clients : RunsOn(e, c)' => RunsOn(e, c)
<1>1. pg \in [DBConns -> Pgs] /\ pg[d] \in Pgs
  BY DEF TypeInv, DbTypes
<1>2. Cleared(d).link = "closed" \/ Cleared(d).query = NULL
  BY <1>1 DEF Cleared, FreshPg, Pgs
<1>3. pg'[d] = Cleared(d) /\ \A e \in DBConns : e # d => pg'[e] = pg[e]
  BY <1>1
<1> QED BY <1>2, <1>3, NoPeerAssumption DEF RunsOn

\* A completion makes nobody fresh again and starts no command.
LEMMA LoopFresh ==
  ASSUME TypeInv, SlotInv, PeerInv, ServerLoop, ~ OnAcceptedFull, ~ OnReadExit
  PROVE  /\ commits' = commits /\ orphans' = orphans
         /\ \A c \in Clients : Fresh(c)' => Fresh(c)
         /\ \A d \in DBConns, c \in Clients : RunsOn(d, c)' => RunsOn(d, c)
<1> DEFINE kept == /\ commits' = commits /\ orphans' = orphans
                   /\ \A c \in Clients : Fresh(c)' => Fresh(c)
                   /\ \A d \in DBConns, c \in Clients : RunsOn(d, c)' => RunsOn(d, c)
<1>2. ASSUME NEW s \in Slots, NEW ev, Seen(s, ev)
      PROVE  \A x \in Entries' : x \in Entries /\ x.slot # s
  BY <1>2, SeenEntry
<1>3. ASSUME peer' = peer, commits' = commits, orphans' = orphans,
             \A d \in DBConns, c \in Clients : RunsOn(d, c)' => RunsOn(d, c),
             NEW s \in Slots, NEW ev, Seen(s, ev),
             \A x \in Slots : x # s => pool'[x] = pool[x],
             pool'[s].last_event = "READING" => Fresh(pool'[s].client_fd)
      PROVE  kept
  <2>1. \A c \in Clients : Fresh(c)' => Fresh(c)
    BY <1>2, <1>3, FreshMove
  <2> QED BY <1>3, <2>1
<1>4. CASE OnReadAnswered
  <2> PICK s \in Slots :
        /\ Seen(s, "READING")
        /\ pool' = [pool EXCEPT ![s] =
                      Writing(@, Text(StaticAnswer[Request(s)], @.buffer.about))]
    BY <1>4 DEF OnReadAnswered
  <2> DEFINE w == Writing(pool[s], Text(StaticAnswer[Request(s)], pool[s].buffer.about))
  <2>1. w.last_event = "WRITING"
    BY SeenSlot, SlotFields DEF Writing, ReqRes, SlotInv
  <2>2. /\ pool' = [pool EXCEPT ![s] = w] /\ peer' = peer
        /\ pg' = pg /\ commits' = commits /\ orphans' = orphans
    BY <1>4 DEF OnReadAnswered, peerVars, dbVars
  <2> HIDE DEF w
  <2> QED BY <1>3, <2>1, <2>2, OtherSlots DEF RunsOn
<1>5. CASE OnReadQueued
  <2> PICK s \in Slots :
        /\ Seen(s, "READING")
        /\ pool' = [pool EXCEPT ![s] = [@ EXCEPT
                      !.db_data = "allocated",
                      !.db_request_sender =
                         IF Request(s) = "extrato" THEN "extrato" ELSE "transacao"]]
    BY <1>5 DEF OnReadQueued
  <2> DEFINE r == [pool[s] EXCEPT !.db_data = "allocated",
                      !.db_request_sender =
                         IF Request(s) = "extrato" THEN "extrato" ELSE "transacao"]
  <2>1. r.client_fd = pool[s].client_fd /\ pool[s].last_event = "READING"
    BY SeenSlot, SlotFields DEF ReqRes, SlotInv
  <2>2. /\ pool' = [pool EXCEPT ![s] = r] /\ peer' = peer
        /\ pg' = pg /\ commits' = commits /\ orphans' = orphans
    BY <1>5 DEF OnReadQueued, peerVars, dbVars
  <2> HIDE DEF r
  <2>3. pool'[s] = r /\ \A x \in Slots : x # s => pool'[x] = pool[x]
    BY <2>2, OtherSlots
  <2>4. Fresh(pool'[s].client_fd)
    BY <2>1, <2>3 DEF Fresh, Holds
  <2> QED BY <1>3, <2>2, <2>3, <2>4 DEF RunsOn
<1>6. CASE OnDbResponding
  <2> PICK s \in Slots :
        /\ Seen(s, "DB_RESPONDING")
        /\ pg' = [pg EXCEPT ![pool[s].dbconn] = Cleared(pool[s].dbconn)]
        /\ pool' = [pool EXCEPT ![s] = Writing(@,
             end_async(@.db_response_handler, Result(pool[s].dbconn), @.client_fd,
                       pg[pool[s].dbconn].query))]
    BY <1>6 DEF OnDbResponding
  <2> DEFINE a == end_async(pool[s].db_response_handler, Result(pool[s].dbconn),
                            pool[s].client_fd, pg[pool[s].dbconn].query)
             w == Writing(pool[s], a)
  <2>1. w.last_event = "WRITING"
    <3> HIDE DEF a
    <3> QED BY SeenSlot, SlotFields DEF Writing, ReqRes, SlotInv
  <2>2. /\ pool' = [pool EXCEPT ![s] = w] /\ peer' = peer
        /\ commits' = commits /\ orphans' = orphans
    BY <1>6 DEF OnDbResponding, peerVars
  <2> HIDE DEF w
  <2>3. pool[s].dbconn \in DBConns
    BY SeenEntry DEF TypeInv, HasConn
  <2>4. \A d \in DBConns, c \in Clients : RunsOn(d, c)' => RunsOn(d, c)
    BY <2>3, ClearedRuns
  <2> QED BY <1>3, <2>1, <2>2, <2>4, OtherSlots
<1>7. CASE OnWritten
  <2> PICK s \in Slots : /\ Seen(s, "WRITING")
                         /\ pool' = [pool EXCEPT ![s].last_event = "CLOSING"]
    BY <1>7 DEF OnWritten
  <2> DEFINE r == [pool[s] EXCEPT !.last_event = "CLOSING"]
  <2>1. r.last_event = "CLOSING"
    BY SeenSlot, SlotFields DEF ReqRes, SlotInv
  <2>2. /\ pool' = [pool EXCEPT ![s] = r] /\ peer' = peer
        /\ pg' = pg /\ commits' = commits /\ orphans' = orphans
    BY <1>7 DEF OnWritten, peerVars, dbVars
  <2> HIDE DEF r
  <2> QED BY <1>3, <2>1, <2>2, OtherSlots DEF RunsOn
<1>8. CASE OnClosed
  <2> PICK s \in Slots : Seen(s, "CLOSING") /\ pool' = [pool EXCEPT ![s] = Zeroed]
    BY <1>8 DEF OnClosed
  <2>1. peer' = peer /\ pg' = pg /\ commits' = commits /\ orphans' = orphans
    BY <1>8 DEF OnClosed, peerVars, dbVars
  <2> QED BY <1>3, <2>1, OtherSlots, ZeroedFields DEF RunsOn
<1>9. CASE OnError
  <2>1. /\ pool' = pool /\ peer' = peer /\ pg' = pg /\ commits' = commits /\ orphans' = orphans
        /\ cq # <<>> /\ cq' = Tail(cq)
    BY <1>9 DEF OnError, peerVars, dbVars
  <2>2. \A x \in Entries' : x \in Entries
    BY <2>1, EntriesTail DEF SlotInv
  <2> QED BY <2>1, <2>2 DEF RunsOn, Fresh, Arrived, Finished, Holds
<1>10. CASE OnAccepted
  <2>0. PICK s \in Slots, t \in Slots :
        /\ Seen(s, "ACCEPTTING")
        /\ Least(t, FreeSlots)
        /\ pool' = [pool EXCEPT
             ![s] = [@ EXCEPT !.client_fd = Head(cq).fd, !.last_event = "READING"],
             ![t] = Accepting]
    BY <1>10 DEF OnAccepted
  <2> DEFINE h == Head(cq)
             r == [pool[s] EXCEPT !.client_fd = h.fd, !.last_event = "READING"]
  <2>1. /\ h \in Entries /\ h.slot = s /\ Arrived(h)
        /\ \A x \in Entries' : x \in Entries /\ x.slot # s
    BY <2>0, SeenEntry DEF Arrived
  <2>2. /\ peer' = peer /\ pg' = pg /\ commits' = commits /\ orphans' = orphans
        /\ pool' = [[pool EXCEPT ![s] = r] EXCEPT ![t] = Accepting]
    BY <1>10, <2>0 DEF OnAccepted, dbVars, peerVars
  <2>3. pool[s].ring /\ ~ pool[t].ring /\ t # s /\ \A x \in Entries : x.slot # t
    BY <2>0, <2>1, EntryAlone DEF SlotInv, Least, FreeSlots
  <2>4. r.client_fd = h.fd
    BY <2>3, SlotFields DEF ReqRes
  <2>5. Fresh(h.fd)
    BY <2>1 DEF Fresh
  <2> HIDE DEF r
  <2>6. /\ pool'[s] = r /\ pool'[t] = Accepting
        /\ \A x \in Slots : x \notin {s, t} => pool'[x] = pool[x]
    BY <2>2, <2>3 DEF TypeInv, ServerTypes
  <2>7. \A x \in {s, t} : pool'[x].last_event = "READING" => Fresh(pool'[x].client_fd)
    BY <2>4, <2>5, <2>6, ZeroedFields
  <2>8. \A x \in Entries' : x \in Entries /\ x.slot \notin {s, t}
    BY <2>1, <2>3
  <2>9. \A c \in Clients : Fresh(c)' => Fresh(c)
    BY <2>2, <2>6, <2>7, <2>8, FreshMoves
  <2> QED BY <2>2, <2>9 DEF RunsOn
<1> QED BY <1>4, <1>5, <1>6, <1>7, <1>8, <1>9, <1>10 DEF ServerLoop

LEMMA LoopCommits ==
  ASSUME TypeInv, SlotInv, PeerInv, CommitInv, ServerLoop
  PROVE  CommitInv'
<1>1. CASE OnAcceptedFull \/ OnReadExit
  BY <1>1, ExitsCommit DEF OnAcceptedFull, OnReadExit
<1> QED BY <1>1, LoopFresh, CommitKept

LEMMA KernelFresh ==
  ASSUME TypeInv, SlotInv, PeerInv, Kernel
  PROVE  /\ pg' = pg /\ commits' = commits /\ orphans' = orphans
         /\ \A c \in Clients : Fresh(c)' => Fresh(c)
<1>1. pg' = pg /\ commits' = commits /\ orphans' = orphans
  BY DEF Kernel, CompleteAccept, CompleteRead, CompleteWrite, CompleteClose, CompleteDbRead,
     CompleteError, dbVars
<1>2. \A c \in Clients : Fresh(c)' => Fresh(c)
  <2>1. PICK o \in inflight, e \in Cqes :
          /\ e.slot = o.slot /\ Entries' = Entries \cup {e}
          /\ e.failed \/ o.op # "accept" \/ (CompleteAccept /\ e.fd = Head(backlog))
    <3>1. PICK o \in inflight, f \in BOOLEAN, c \in Clients \cup {NULL} :
            /\ Complete(o, Cqe(o.slot, f, c))
            /\ f \/ o.op # "accept" \/ (CompleteAccept /\ c = Head(backlog))
      <4>1. CASE CompleteAccept
        <5>1. Head(backlog) \in Clients
          BY <4>1, BacklogTail DEF CompleteAccept, PeerInv
        <5> QED BY <4>1, <5>1 DEF CompleteAccept
      <4>2. CASE CompleteError
        BY <4>2 DEF CompleteError
      <4>3. CASE CompleteRead \/ CompleteWrite \/ CompleteClose \/ CompleteDbRead
        BY <4>3 DEF CompleteRead, CompleteWrite, CompleteClose, CompleteDbRead
      <4> QED BY <4>1, <4>2, <4>3 DEF Kernel
    <3> PICK e : e = Cqe(o.slot, f, c)
      OBVIOUS
    <3>2. e \in Cqes /\ e.slot = o.slot /\ e.failed = f /\ e.fd = c
      BY OpsSlots DEF Cqe, Cqes
    <3>3. Entries' = Entries \cup {e}
      BY <3>1, <3>2, EntriesAppend DEF Complete
    <3> QED BY <3>1, <3>2, <3>3
  <2>2. \A x \in Slots : /\ pool'[x].last_event = pool[x].last_event
                         /\ pool'[x].client_fd = pool[x].client_fd
    <3>1. CASE CompleteRead
      <4>0. PICK p \in inflight :
            pool' = [pool EXCEPT ![p.slot].buffer = Text("request", pool[p.slot].client_fd)]
        BY <3>1 DEF CompleteRead
      <4> DEFINE r == [pool[p.slot] EXCEPT !.buffer = Text("request", pool[p.slot].client_fd)]
      <4>1. p.slot \in Slots
        BY OpsSlots
      <4>2. r.last_event = pool[p.slot].last_event /\ r.client_fd = pool[p.slot].client_fd
        BY <4>1, SlotFields DEF ReqRes
      <4>3. pool' = [pool EXCEPT ![p.slot] = r]
        BY <4>0
      <4> HIDE DEF r
      <4> QED BY <4>1, <4>2, <4>3, OtherSlots
    <3>2. CASE ~ CompleteRead
      BY <3>2 DEF Kernel, CompleteAccept, CompleteWrite, CompleteClose, CompleteDbRead,
         CompleteError, serverVars
    <3> QED BY <3>1, <3>2
  <2>3. \A c \in Clients : peer'[c] \in {"idle", "backlog"} => peer[c] \in {"idle", "backlog"}
    <3>1. peer' = peer \/ CompleteAccept \/ CompleteClose
      BY DEF Kernel, CompleteRead, CompleteWrite, CompleteDbRead, CompleteError, peerVars
    <3>2. peer \in [Clients -> {"idle", "backlog", "open", "closed"}]
      BY DEF TypeInv, PeerTypes
    <3>3. CASE CompleteAccept
      BY <3>2, <3>3 DEF CompleteAccept
    <3>4. CASE CompleteClose
      <4> PICK c : peer' = [peer EXCEPT ![c] = "closed"]
        BY <3>4 DEF CompleteClose
      <4> QED BY <3>2
    <3> QED BY <3>1, <3>3, <3>4
  <2>4. \A x \in Entries : x.slot \in Slots
    BY EntryTypes
  <2>5. ASSUME Arrived(e)' PROVE Fresh(e.fd)
    <3>1. o.slot \in Slots /\ o.op = "accept" /\ ~ e.failed
      BY <2>1, <2>2, <2>5, OpUnderWay DEF Arrived, Finished, OpOf
    <3>2. CompleteAccept /\ e.fd = Head(backlog)
      BY <2>1, <3>1
    <3>3. peer[e.fd] = "backlog"
      BY <3>2, BacklogTail DEF CompleteAccept, PeerInv
    <3> QED BY <3>3 DEF Fresh
  <2>6. \A x \in Entries' : Arrived(x)' => Fresh(x.fd)
    <3> SUFFICES ASSUME NEW x \in Entries', Arrived(x)' PROVE Fresh(x.fd)
      OBVIOUS
    <3>1. CASE x = e
      BY <2>5, <3>1
    <3>2. CASE x \in Entries
      BY <2>2, <2>4, <3>2 DEF Arrived, Finished, Fresh
    <3> QED BY <2>1, <3>1, <3>2
  <2> QED BY <2>2, <2>3, <2>6 DEF Fresh, Holds
<1> QED BY <1>1, <1>2

LEMMA KernelCommits ==
  ASSUME TypeInv, SlotInv, PeerInv, CommitInv, Kernel
  PROVE  CommitInv'
  BY KernelFresh, CommitKept DEF RunsOn

LEMMA AppliedOne ==
  ASSUME TypeInv, NEW c \in Clients, NEW r \in Replies(c), Applied(c, r), commits[c] = 0
  PROVE  /\ commits'[c] <= 1 /\ r # "none"
         /\ \A x \in Clients : x # c => commits'[x] = commits[x]
<1>1. commits \in [Clients -> Nat]
  BY DEF TypeInv, DbTypes
<1>2. commits' = commits \/ commits' = [commits EXCEPT ![c] = commits[c] + 1]
  BY DEF Applied
<1>3. r # "none"
  BY OutcomesAssumption DEF Replies
<1> QED BY <1>1, <1>2, <1>3

LEMMA WorldCommits ==
  ASSUME TypeInv, SlotInv, PeerInv, CommitInv, World
  PROVE  CommitInv'
<1>0. pg \in [DBConns -> Pgs]
  BY DEF TypeInv, DbTypes
<1>1. ASSUME pool' = pool, cq' = cq, peer' = peer
      PROVE  \A c \in Clients : Fresh(c)' => Fresh(c)
  BY <1>1 DEF Fresh, Entries, Arrived, Finished, Holds
<1>2. CASE BackendRuns
  <2>0. PICK d \in DBConns :
          /\ pg[d].link = "up" /\ pg[d].query # NULL /\ pg[d].reply = "none"
          /\ \E r \in Replies(pg[d].query) :
               pg' = [pg EXCEPT ![d].reply = r] /\ Applied(pg[d].query, r)
    BY <1>2 DEF BackendRuns
  <2> PICK c : c = pg[d].query
    OBVIOUS
  <2>1. PICK r \in Replies(c) : pg' = [pg EXCEPT ![d].reply = r] /\ Applied(c, r)
    BY <2>0
  <2>2. c \in Clients /\ RunsOn(d, c)
    BY <1>0, <2>0 DEF Pgs, RunsOn
  <2>3. commits[c] = 0 /\ c \notin orphans
    BY <2>2 DEF CommitInv, Runs
  <2>4. /\ commits'[c] <= 1 /\ r # "none"
        /\ \A x \in Clients : x # c => commits'[x] = commits[x]
    BY <2>1, <2>2, <2>3, AppliedOne
  <2>5. pg'[d].reply = r /\ \A e \in DBConns : e # d => pg'[e] = pg[e]
    BY <1>0, <2>1 DEF Pgs
  <2>6. \A e \in DBConns, x \in Clients : RunsOn(e, x)' => RunsOn(e, x) /\ e # d
    BY <2>4, <2>5 DEF RunsOn
  <2>7. ~ Runs(c)'
    BY <2>2, <2>6 DEF Runs, CommitInv
  <2>8. orphans' = orphans /\ \A x \in Clients : Fresh(x)' => Fresh(x)
    BY <1>1, <1>2 DEF BackendRuns, serverVars, ringVars, peerVars
  <2>9. ~ Fresh(c)
    BY <2>2 DEF CommitInv, Runs
  <2> QED BY <2>3, <2>4, <2>6, <2>7, <2>8, <2>9 DEF CommitInv, Runs
<1>3. CASE OrphanRuns
  <2> PICK c \in orphans :
        orphans' = orphans \ {c} /\ \E r \in Replies(c) : Applied(c, r)
    BY <1>3 DEF OrphanRuns
  <2>0. PICK r \in Replies(c) : orphans' = orphans \ {c} /\ Applied(c, r)
    OBVIOUS
  <2>1. c \in Clients
    BY DEF TypeInv, DbTypes
  <2>2. commits[c] = 0 /\ ~ Runs(c) /\ ~ Fresh(c)
    BY <2>1 DEF CommitInv
  <2>3. /\ commits'[c] <= 1
        /\ \A x \in Clients : x # c => commits'[x] = commits[x]
    BY <2>0, <2>1, <2>2, AppliedOne
  <2>4. pg' = pg /\ \A x \in Clients : Fresh(x)' => Fresh(x)
    BY <1>1, <1>3 DEF OrphanRuns, serverVars, ringVars, peerVars
  <2> QED BY <2>0, <2>1, <2>2, <2>3, <2>4 DEF CommitInv, Runs, RunsOn
<1>4. CASE CutLink
  <2>0. PICK d \in DBConns :
          /\ pg[d].link = "up"
          /\ \E r \in {pg[d].reply, "none"} :
               pg' = [pg EXCEPT ![d].link = "cut", ![d].reply = r]
          /\ orphans' = IF pg[d].reply = "none" THEN orphans \cup ({pg[d].query} \ {NULL})
                        ELSE orphans
    BY <1>4 DEF CutLink
  <2>1. pg'[d].link = "cut" /\ \A e \in DBConns : e # d => pg'[e] = pg[e]
    BY <1>0, <2>0 DEF Pgs
  <2>2. \A e \in DBConns, x \in Clients : RunsOn(e, x)' => RunsOn(e, x) /\ e # d
    BY <2>1 DEF RunsOn
  <2>3. \A x \in Clients : x \in orphans' => x \in orphans \/ RunsOn(d, x)
    BY <2>0 DEF RunsOn
  <2>4. commits' = commits /\ \A x \in Clients : Fresh(x)' => Fresh(x)
    BY <1>1, <1>4 DEF CutLink, serverVars, ringVars, peerVars
  <2> QED BY <2>2, <2>3, <2>4 DEF CommitInv, Runs
<1>5. CASE Connect
  <2>1. /\ pool' = pool /\ cq' = cq /\ pg' = pg /\ commits' = commits /\ orphans' = orphans
        /\ \E c \in Clients : peer[c] = "idle" /\ peer' = [peer EXCEPT ![c] = "backlog"]
    BY <1>5 DEF Connect, serverVars, ringVars, dbVars
  <2>2. \A x \in Clients : peer'[x] \in {"idle", "backlog"} => peer[x] \in {"idle", "backlog"}
    BY <2>1 DEF TypeInv, PeerTypes
  <2>3. \A x \in Clients : Fresh(x)' => Fresh(x)
    BY <2>1, <2>2 DEF Fresh, Entries, Arrived, Finished, Holds
  <2> QED BY <2>1, <2>3, CommitKept DEF RunsOn
<1> QED BY <1>2, <1>3, <1>4, <1>5 DEF World

LEMMA CommitStep == TypeInv /\ SlotInv /\ PeerInv /\ CommitInv /\ [Next]_vars => CommitInv'
<1> SUFFICES ASSUME TypeInv, SlotInv, PeerInv, CommitInv, [Next]_vars PROVE CommitInv'
  OBVIOUS
<1>1. CASE Crash
  BY <1>1, ExitsCommit DEF Crash
<1>2. CASE UNCHANGED vars
  BY <1>2, CommitKept DEF vars, serverVars, ringVars, dbVars, peerVars, Fresh, Entries, Arrived,
     Finished, Holds, RunsOn
<1>3. CASE Boot
  <2>1. /\ pool' = [pool EXCEPT ![0] = Accepting] /\ 0 \in Slots /\ cq' = cq /\ cq = <<>>
        /\ peer' = peer /\ pg' = pg /\ commits' = commits /\ orphans' = orphans
    BY <1>3, SlotsNonEmpty DEF Boot, SlotInv, DownIsEmpty, dbVars, peerVars
  <2>2. pool'[0] = Accepting /\ \A s \in Slots : s # 0 => pool'[s] = pool[s]
    BY <2>1, OtherSlots
  <2>3. Entries' = {}
    BY <2>1 DEF Entries
  <2>4. \A x \in Clients : Fresh(x)' => Fresh(x)
    BY <2>1, <2>2, <2>3, FreshMove, ZeroedFields
  <2> QED BY <2>1, <2>4, CommitKept DEF RunsOn
<1> QED BY <1>1, <1>2, <1>3, DispatchCommits, LoopCommits, KernelCommits, WorldCommits DEF Next

\* A request is with at most one of the three that can still apply it (a slot,
\* the library's connection, an orphaned backend), and none once it was applied.
THEOREM CommitInvariant == Spec => []CommitInv
  BY CommitInit, CommitStep, TypeInvariant, SlotInvariant, PeerInvariant, PTL DEF Spec

\* The transaction of a request is applied at most once: also when the process
\* that sent it is killed or ends by itself, or its connection to the database
\* is lost, with the command left to a backend (main.c:208-263, db.c:127-196),
\* and when completions and submits fail.
THEOREM TransactionsAppliedOnce == Spec => []AppliedAtMostOnce
<1>1. CommitInv => AppliedAtMostOnce
  BY DEF CommitInv, AppliedAtMostOnce
<1> QED BY <1>1, CommitInvariant, PTL
-----------------------------------------------------------------------------
(***************************************************************************)
(* The answer a slot is about to give is true: what it says of a           *)
(* transaction is what the database did, and nobody was told before.       *)
(***************************************************************************)
\* What the refinement assumes: every body parses, nobody asks for the end of
\* the process, and the connections to the database stay up.
Sound == BodiesParse /\ "exit" \notin Kinds /\ MaxCuts = 0

SenderOf(c) == IF kind[c] = "extrato" THEN "extrato" ELSE "transacao"
ForDatabase(c) == kind[c] \in {"extrato", "transacao"}

\* What each peer has asked for, and what may have been done for it.
KindInv ==
  \A c \in Clients :
    /\ kind[c] = "none" <=> peer[c] = "idle"
    /\ commits[c] = 1 => kind[c] = "transacao"
    /\ Runs(c) \/ c \in orphans => ForDatabase(c)
    /\ c \in orphans => peer[c] = "closed"

\* Nobody is answered while its request may still have an effect.
SilentInv == \A c \in Clients : Fresh(c) \/ Runs(c) \/ c \in orphans => got[c] = <<>>

LinksUp == \A d \in DBConns : pg[d].link = "up"

\* What slot s, which holds the socket of c, is about to say.
SlotTruth(s) ==
  LET c == pool[s].client_fd
      done == commits[c] = 1
  IN  /\ s \in heap => ForDatabase(c) /\ pool[s].db_request_sender = SenderOf(c)
      /\ Responding(s) =>
           /\ got[c] = <<>> /\ ForDatabase(c) /\ pool[s].db_response_handler = SenderOf(c)
           /\ kind[c] = "transacao" => (pg[pool[s].dbconn].reply = "ok" <=> done)
      /\ pool[s].last_event = "WRITING" /\ HasOp(s) =>
           /\ got[c] = <<>>
           /\ pool[s].buffer.status = "OK" => ForDatabase(c)
           /\ kind[c] = "transacao" => (pool[s].buffer.status = "OK" <=> done)

PromiseInv == KindInv /\ SilentInv /\ LinksUp /\ \A s \in Slots : SlotTruth(s)

LEMMA PromiseInit == Init => PromiseInv
<1> SUFFICES ASSUME Init PROVE PromiseInv
  OBVIOUS
<1>1. /\ \A s \in Slots : pool[s] = Zeroed
      /\ heap = {} /\ orphans = {}
      /\ \A d \in DBConns : pg[d] = FreshPg
      /\ \A c \in Clients : /\ kind[c] = "none" /\ peer[c] = "idle"
                            /\ commits[c] = 0 /\ got[c] = <<>>
  BY DEF Init, Queue!QInit
<1>2. \A c \in Clients : ~ Runs(c)
  BY <1>1, NoPeerAssumption DEF Runs, RunsOn, FreshPg
<1>3. KindInv /\ SilentInv /\ LinksUp
  BY <1>1, <1>2 DEF KindInv, SilentInv, LinksUp, FreshPg
<1>4. \A s \in Slots : SlotTruth(s)
  BY <1>1, ZeroedFields DEF SlotTruth, Responding
<1> QED BY <1>3, <1>4 DEF PromiseInv

LEMMA SlotTruthIdle ==
  ASSUME NEW s \in Slots, s \notin heap', pool'[s].last_event \notin {"DB_RESPONDING", "WRITING"}
  PROVE  SlotTruth(s)'
  BY DEF SlotTruth, Responding

LEMMA SlotTruthKept ==
  ASSUME NEW s \in Slots, SlotTruth(s), pool'[s] = pool[s],
         s \in heap' => s \in heap,
         HasOp(s)' => HasOp(s),
         Responding(s) => pg'[pool[s].dbconn].reply = pg[pool[s].dbconn].reply,
         kind'[pool[s].client_fd] = kind[pool[s].client_fd],
         commits'[pool[s].client_fd] = commits[pool[s].client_fd],
         got'[pool[s].client_fd] = got[pool[s].client_fd]
  PROVE  SlotTruth(s)'
<1> PICK c : c = pool[s].client_fd
  OBVIOUS
<1>1. (ForDatabase(c) => ForDatabase(c)') /\ SenderOf(c)' = SenderOf(c)
  BY DEF ForDatabase, SenderOf
<1>2. s \in heap' => ForDatabase(c)' /\ pool'[s].db_request_sender = SenderOf(c)'
  BY <1>1 DEF SlotTruth
<1>3. Responding(s)' =>
        /\ got'[c] = <<>> /\ ForDatabase(c)' /\ pool'[s].db_response_handler = SenderOf(c)'
        /\ kind'[c] = "transacao" => (pg'[pool[s].dbconn].reply = "ok" <=> commits'[c] = 1)
  BY <1>1 DEF SlotTruth, Responding
<1>4. pool'[s].last_event = "WRITING" /\ HasOp(s)' =>
        /\ got'[c] = <<>>
        /\ pool'[s].buffer.status = "OK" => ForDatabase(c)'
        /\ kind'[c] = "transacao" => (pool'[s].buffer.status = "OK" <=> commits'[c] = 1)
  BY <1>1 DEF SlotTruth
<1>5. pool'[s].client_fd = c /\ pool'[s].dbconn = pool[s].dbconn
  OBVIOUS
<1> QED BY <1>2, <1>3, <1>4, <1>5 DEF SlotTruth

\* A step that answers nobody, starts no command and changes no balance.
LEMMA PromiseKept ==
  ASSUME PromiseInv, kind' = kind, commits' = commits, got' = got, orphans' = orphans,
         \A c \in Clients : /\ peer'[c] = "idle" <=> peer[c] = "idle"
                            /\ peer[c] = "closed" => peer'[c] = "closed",
         \A c \in Clients : Fresh(c)' => Fresh(c),
         \A d \in DBConns, c \in Clients : RunsOn(d, c)' => RunsOn(d, c),
         LinksUp', \A s \in Slots : SlotTruth(s)'
  PROVE  PromiseInv'
<1>1. \A c \in Clients : Runs(c)' => Runs(c)
  BY DEF Runs
<1>2. \A c \in Clients : ForDatabase(c)' <=> ForDatabase(c)
  BY DEF ForDatabase
<1>3. KindInv'
  BY <1>1, <1>2 DEF PromiseInv, KindInv
<1>4. SilentInv'
  BY <1>1 DEF PromiseInv, SilentInv
<1> QED BY <1>3, <1>4 DEF PromiseInv

LEMMA ExitPromise ==
  ASSUME TypeInv, PromiseInv, NEW links, Exit(got, links),
         \A d \in DBConns, c \in Clients :
           links[d].link = "up" /\ links[d].query = c /\ links[d].reply = "none"
             => RunsOn(d, c) \/ (Fresh(c) /\ ForDatabase(c))
  PROVE  PromiseInv'
<1>1. /\ cq' = <<>> /\ heap' = {} /\ kind' = kind /\ commits' = commits /\ got' = got
      /\ pool' = [s \in Slots |-> Zeroed] /\ pg' = [d \in DBConns |-> FreshPg]
      /\ orphans' = orphans \cup Running(links)
      /\ peer' = [c \in Clients |-> IF peer[c] = "idle" THEN "idle" ELSE "closed"]
  BY DEF Exit
<1>2. \A c \in Clients : ~ Runs(c)'
  BY <1>1, NoPeerAssumption DEF Runs, RunsOn, FreshPg
<1>3. Entries' = {}
  BY <1>1 DEF Entries
<1>4. \A c \in Clients : Fresh(c)' => Fresh(c)
  BY <1>1, <1>3, ZeroedFields DEF Fresh
<1>5. \A c \in Clients : c \in orphans' => /\ got[c] = <<>> /\ ForDatabase(c)
                                           /\ peer[c] # "idle"
  <2> SUFFICES ASSUME NEW c \in Clients, c \in orphans'
               PROVE  got[c] = <<>> /\ ForDatabase(c) /\ peer[c] # "idle"
    OBVIOUS
  <2>1. c \in orphans \/ Runs(c) \/ (Fresh(c) /\ ForDatabase(c))
    BY <1>1 DEF Running, Runs
  <2>2. got[c] = <<>> /\ ForDatabase(c)
    BY <2>1 DEF PromiseInv, KindInv, SilentInv
  <2> QED BY <2>2 DEF PromiseInv, KindInv, ForDatabase
<1>6. KindInv'
  <2>1. \A c \in Clients : ForDatabase(c)' <=> ForDatabase(c)
    BY <1>1 DEF ForDatabase
  <2>2. \A c \in Clients : /\ peer'[c] = "idle" <=> peer[c] = "idle"
                           /\ peer[c] # "idle" => peer'[c] = "closed"
    BY <1>1
  <2> QED BY <1>1, <1>2, <1>5, <2>1, <2>2 DEF PromiseInv, KindInv
<1>7. SilentInv'
  BY <1>1, <1>2, <1>4, <1>5 DEF PromiseInv, SilentInv
<1>8. LinksUp'
  BY <1>1 DEF LinksUp, FreshPg
<1>9. \A s \in Slots : SlotTruth(s)'
  BY <1>1, SlotTruthIdle, ZeroedFields
<1> QED BY <1>6, <1>7, <1>8, <1>9 DEF PromiseInv

LEMMA SubmitOnly ==
  ASSUME NEW op, NEW s, Submit(Op(op, s))
  PROVE  \A x : x # s /\ HasOp(x)' => HasOp(x)
<1>1. sq' \cup inflight' = sq \cup inflight \cup {Op(op, s)}
  BY SubmitAdds DEF Submit
<1> QED BY <1>1, OpFields DEF HasOp

\* Who asked for what a waiting request holds.
LEMMA KnownKind ==
  ASSUME TypeInv, NEW c \in Clients
  PROVE  kind[c] \in Kinds \cup {"none"}
  BY DEF TypeInv, PeerTypes

\* The text of the loop leaves the peers, and what they know, alone.
LEMMA PromiseMoves ==
  ASSUME TypeInv, PromiseInv, NEW s \in Slots,
         kind' = kind, got' = got, peer' = peer, commits' = commits, orphans' = orphans,
         \A c \in Clients : Fresh(c)' => Fresh(c),
         \A d \in DBConns, c \in Clients : RunsOn(d, c)' => RunsOn(d, c),
         LinksUp',
         \A x \in Slots : x # s => pool'[x] = pool[x] /\ (x \in heap' => x \in heap),
         \A x : x # s /\ HasOp(x)' => HasOp(x),
         \A x \in Slots : x # s /\ Responding(x) => pg'[pool[x].dbconn].reply = pg[pool[x].dbconn].reply,
         SlotTruth(s)'
  PROVE  PromiseInv'
<1>1. ASSUME NEW x \in Slots PROVE SlotTruth(x)'
  <2>1. CASE x = s
    BY <2>1
  <2>2. CASE x # s
    BY <2>2, SlotTruthKept DEF PromiseInv
  <2> QED BY <2>1, <2>2
<1> QED BY <1>1, PromiseKept

LEMMA SendPromise ==
  ASSUME TypeInv, SlotInv, PeerInv, AnswerInv, CommitInv, PromiseInv, DispatchSend
  PROVE  PromiseInv'
<1>0. PICK s \in Slots :
      /\ Queue!queu_pop(s)
      /\ pg' = Sent(dbconn, pool[s].buffer.about)
      /\ pool' = [pool EXCEPT ![s] =
                   [@ EXCEPT !.dbconn = dbconn, !.db_data = "freed",
                             !.db_response_handler = pool[s].db_request_sender,
                             !.last_event = "DB_RESPONDING"]]
      /\ Submitted({Op("dbread", s)})
  BY DEF DispatchSend, PQsendQuery
<1> DEFINE r == [pool[s] EXCEPT !.dbconn = dbconn, !.db_data = "freed",
                             !.db_response_handler = pool[s].db_request_sender,
                             !.last_event = "DB_RESPONDING"]
<1>1. /\ r.last_event = "DB_RESPONDING" /\ r.client_fd = pool[s].client_fd
      /\ r.dbconn = dbconn /\ r.db_response_handler = pool[s].db_request_sender
  BY SlotFields DEF ReqRes
<1>2. /\ pool' = [pool EXCEPT ![s] = r] /\ cq' = cq /\ peer' = peer /\ kind' = kind /\ got' = got
      /\ commits' = commits /\ orphans' = orphans /\ dbconn # NULL
  BY <1>0 DEF DispatchSend, peerVars
<1> HIDE DEF r
<1>3. pool'[s] = r /\ \A x \in Slots : x # s => pool'[x] = pool[x]
  BY <1>2, OtherSlots
<1> PICK a : a = pool[s].buffer.about
  OBVIOUS
<1> PICK d : d = dbconn
  OBVIOUS
<1>4. s \in heap /\ heap' = heap \ {s}
  BY <1>0 DEF Queue!queu_pop, SlotInv, QP!QInv, QP!NoDangling
<1>5. /\ a \in Clients /\ Fresh(a) /\ d \in DBConns
      /\ pool[s].client_fd = a
  BY <1>2, <1>4, WaitingIsFresh DEF Holds, TypeInv, ServerTypes
<1>6. commits[a] = 0 /\ got[a] = <<>>
  BY <1>5 DEF CommitInv, PromiseInv, SilentInv
<1>7. ForDatabase(a) /\ pool[s].db_request_sender = SenderOf(a)
  BY <1>4, <1>5 DEF PromiseInv, SlotTruth
<1>8. pg[d].query = NULL /\ pg[d].reply = "none" /\ pg[d].link = "up"
  BY <1>5 DEF AnswerInv, ConnInv, Owns, PromiseInv, LinksUp
<1>9. pg' = [pg EXCEPT ![d].query = a]
  BY <1>0, <1>8 DEF Sent
<1>10. /\ pg'[d].query = a /\ pg'[d].reply = "none" /\ pg'[d].link = "up"
       /\ \A e \in DBConns : e # d => pg'[e] = pg[e]
  BY <1>5, <1>8, <1>9 DEF TypeInv, DbTypes, Pgs
<1>11. \A x : x # s /\ HasOp(x)' => HasOp(x)
  <2>1. sq' \cup inflight' = sq \cup inflight \cup {Op("dbread", s)}
    BY <1>0 DEF Submitted
  <2> QED BY <2>1, OpFields DEF HasOp
<1>12. SlotTruth(s)'
  <2>1. ForDatabase(a)' /\ SenderOf(a)' = SenderOf(a)
    BY <1>2, <1>7 DEF ForDatabase, SenderOf
  <2>2. /\ s \notin heap' /\ pool'[s].client_fd = a /\ pool'[s].last_event = "DB_RESPONDING"
        /\ pool'[s].dbconn = d /\ pool'[s].db_response_handler = SenderOf(a)
    BY <1>1, <1>3, <1>4, <1>5, <1>7
  <2>3. got'[a] = <<>> /\ commits'[a] = 0
    BY <1>2, <1>6
  <2> QED BY <1>10, <2>1, <2>2, <2>3 DEF SlotTruth
<1>13. ASSUME NEW x \in Slots, x # s PROVE SlotTruth(x)'
  <2>1. x \in heap' => x \in heap
    BY <1>4
  <2>2. Responding(x) => pg'[pool[x].dbconn] = pg[pool[x].dbconn]
    BY <1>10 DEF AnswerInv, ConnInv, TypeInv, HasConn, Responding
  <2> QED BY <1>2, <1>3, <1>11, <1>13, <2>1, <2>2, SlotTruthKept DEF PromiseInv
<1>14. \A x \in Slots : SlotTruth(x)'
  BY <1>12, <1>13
<1>15. LinksUp'
  BY <1>10 DEF PromiseInv, LinksUp
<1>16. \A c \in Clients : Fresh(c)' => Fresh(c)
  <2>1. ~ Completed(s)
    BY <1>4, WaitingParts DEF SlotInv, PushedOnce
  <2>2. Entries' = Entries
    BY <1>2 DEF Entries
  <2>3. \A x \in Entries' : x \in Entries /\ x.slot # s
    BY <2>1, <2>2, CompletedEntry
  <2> QED BY <1>1, <1>2, <1>3, <2>3, FreshMove
<1>17. \A c \in Clients : Runs(c)' => Runs(c) \/ c = a
  BY <1>10 DEF Runs, RunsOn
<1>18. \A c \in Clients : ForDatabase(c)' <=> ForDatabase(c)
  BY <1>2 DEF ForDatabase
<1>19. KindInv'
  BY <1>2, <1>7, <1>17, <1>18 DEF PromiseInv, KindInv
<1>20. SilentInv'
  BY <1>2, <1>6, <1>16, <1>17 DEF PromiseInv, SilentInv
<1> QED BY <1>14, <1>15, <1>19, <1>20 DEF PromiseInv

LEMMA DispatchPromise ==
  ASSUME Sound, TypeInv, SlotInv, PeerInv, AnswerInv, CommitInv, PromiseInv, QueuDispatch
  PROVE  PromiseInv'
<1>1. CASE DispatchStart \/ DispatchNoConn \/ DispatchEmpty
  <2>1. /\ pool' = pool /\ cq' = cq /\ sq' = sq /\ inflight' = inflight /\ heap' = heap
        /\ pg' = pg /\ commits' = commits /\ orphans' = orphans
        /\ peer' = peer /\ kind' = kind /\ got' = got
    BY <1>1 DEF DispatchStart, DispatchNoConn, DispatchEmpty, queueVars, ringVars, dbVars, peerVars
  <2>2. \A s \in Slots : SlotTruth(s)'
    <3> TAKE s \in Slots
    <3>1. HasOp(s)' => HasOp(s)
      BY <2>1 DEF HasOp
    <3> QED BY <2>1, <3>1, SlotTruthKept DEF PromiseInv
  <2>3. LinksUp'
    BY <2>1 DEF PromiseInv, LinksUp
  <2>4. /\ \A c \in Clients : Fresh(c)' => Fresh(c)
        /\ \A d \in DBConns, c \in Clients : RunsOn(d, c)' => RunsOn(d, c)
    BY <2>1 DEF Fresh, Entries, Arrived, Finished, Holds, RunsOn
  <2> QED BY <2>1, <2>2, <2>3, <2>4, PromiseKept
<1>2. ~ DispatchRefuse
  <2> SUFFICES ASSUME DispatchRefuse PROVE FALSE
    OBVIOUS
  <2>1. PICK s \in Slots : Queue!queu_pop(s) /\ BadBody(s)
    BY DEF DispatchRefuse
  <2>2. s \in heap
    BY <2>1 DEF Queue!queu_pop, SlotInv, QP!QInv, QP!NoDangling
  <2>3. kind[pool[s].buffer.about] = "badbody" /\ pool[s].buffer.about \in Clients
    BY <2>1, <2>2, WaitingIsFresh DEF BadBody
  <2> QED BY <2>3, KnownKind DEF Sound, BodiesParse
<1>3. CASE DispatchFatal
  <2>1. first \in heap /\ dbconn \in DBConns
    BY <1>3, NoPeerAssumption DEF DispatchFatal, SlotInv, QP!QInv, QP!NoDangling, TypeInv, ServerTypes
  <2> PICK a, d : a = pool[first].buffer.about /\ d = dbconn
    OBVIOUS
  <2>2. Fresh(a) /\ a \in Clients /\ first \in Slots /\ pool[first].client_fd = a
    BY <2>1, WaitingIsFresh DEF Holds
  <2>3. ForDatabase(a)
    BY <2>1, <2>2 DEF PromiseInv, SlotTruth
  <2> PICK links : links = Sent(d, a)
    OBVIOUS
  <2>4. Exit(got, links)
    BY <1>3 DEF DispatchFatal
  <2>5. \A e \in DBConns, c \in Clients :
           links[e].link = "up" /\ links[e].query = c /\ links[e].reply = "none"
             => RunsOn(e, c) \/ (Fresh(c) /\ ForDatabase(c))
    BY <2>1, <2>2, <2>3, SentRuns
  <2> QED BY <2>4, <2>5, ExitPromise
<1> QED BY <1>1, <1>2, <1>3, SendPromise DEF QueuDispatch

\* The handler says OK exactly when the database returned a row.
LEMMA EndStatus ==
  ASSUME NEW h \in {"extrato", "transacao"}, NEW r \in {"ok", "null", "error"}, NEW c, NEW q
  PROVE  end_async(h, r, c, q).status = "OK" <=> r = "ok"
<1>1. r = "ok" => db_end(h, r) = 1
  BY DEF db_end, db_get_result
<1>2. r # "ok" => db_end(h, r) = -1 \/ db_end(h, r) = -2
  BY DEF db_end, db_get_result, TRANSACAO_INVALID, TRANSACAO_DB_ERROR
<1> QED BY <1>1, <1>2 DEF end_async, Text

LEMMA StaticIsNotOk ==
  ASSUME NEW k \in DOMAIN StaticAnswer
  PROVE  StaticAnswer[k] # "OK" /\ k # "transacao" /\ k # "extrato"
  BY DEF StaticAnswer

\* The request of a slot that has just read it.
LEMMA ReadRequest ==
  ASSUME TypeInv, SlotInv, PeerInv, PromiseInv, NEW s \in Slots, Seen(s, "READING")
  PROVE  /\ pool[s].client_fd \in Clients /\ Fresh(pool[s].client_fd)
         /\ Request(s) = kind[pool[s].client_fd]
         /\ got[pool[s].client_fd] = <<>>
<1>1. /\ Head(cq) \in Entries /\ Head(cq).slot = s /\ Finished(Head(cq), "READING")
      /\ pool[s].last_event = "READING"
  BY SeenEntry
<1>2. pool[s].client_fd \in Clients /\ pool[s].buffer.about = pool[s].client_fd
  BY <1>1 DEF PeerInv, SlotSockets, OwnRequest
<1>3. Fresh(pool[s].client_fd)
  BY <1>1, <1>2 DEF Fresh, Holds
<1> QED BY <1>2, <1>3 DEF Request, PromiseInv, SilentInv

LEMMA AnsweredPromise ==
  ASSUME TypeInv, SlotInv, PeerInv, PromiseInv, OnReadAnswered
  PROVE  PromiseInv'
<1> PICK s \in Slots :
      /\ Seen(s, "READING")
      /\ Request(s) \in DOMAIN StaticAnswer \ {"exit"}
      /\ pool' = [pool EXCEPT ![s] =
                    Writing(@, Text(StaticAnswer[Request(s)], @.buffer.about))]
      /\ Submit(Op("write", s))
  BY DEF OnReadAnswered
<1> DEFINE w == Writing(pool[s], Text(StaticAnswer[Request(s)], pool[s].buffer.about))
<1>1. /\ w.last_event = "WRITING" /\ w.client_fd = pool[s].client_fd
      /\ w.buffer.status = StaticAnswer[Request(s)]
  BY SeenSlot, SlotFields DEF Writing, ReqRes, SlotInv, Text
<1>2. /\ pool' = [pool EXCEPT ![s] = w] /\ peer' = peer /\ kind' = kind /\ got' = got
      /\ pg' = pg /\ heap' = heap /\ s \notin heap
  BY SeenSlot DEF OnReadAnswered, peerVars, dbVars, queueVars, SlotInv
<1> HIDE DEF w
<1>3. pool'[s] = w /\ \A x \in Slots : x # s => pool'[x] = pool[x]
  BY <1>2, OtherSlots
<1> PICK c : c = pool[s].client_fd
  OBVIOUS
<1>4. kind[c] # "transacao" /\ pool'[s].buffer.status # "OK" /\ got[c] = <<>>
  BY <1>1, <1>3, ReadRequest, StaticIsNotOk
<1>5. SlotTruth(s)'
  <2>1. s \notin heap' /\ pool'[s].client_fd = c /\ pool'[s].last_event = "WRITING"
    BY <1>1, <1>2, <1>3
  <2>2. kind'[c] # "transacao" /\ got'[c] = <<>>
    BY <1>2, <1>4
  <2> QED BY <1>4, <2>1, <2>2 DEF SlotTruth, Responding
<1>6. LinksUp'
  BY <1>2 DEF PromiseInv, LinksUp
<1>7. ~ OnAcceptedFull /\ ~ OnReadExit
  BY <1>2, StaticIsNotOk DEF OnAcceptedFull, OnReadExit, Seen
<1>8. /\ commits' = commits /\ orphans' = orphans
      /\ \A x \in Clients : Fresh(x)' => Fresh(x)
      /\ \A d \in DBConns, x \in Clients : RunsOn(d, x)' => RunsOn(d, x)
  BY <1>7, LoopFresh DEF ServerLoop
<1>9. \A x : x # s /\ HasOp(x)' => HasOp(x)
  BY SubmitOnly
<1> QED BY <1>2, <1>3, <1>5, <1>6, <1>8, <1>9, PromiseMoves

LEMMA QueuedPromise ==
  ASSUME Sound, TypeInv, SlotInv, PeerInv, PromiseInv, OnReadQueued
  PROVE  PromiseInv'
<1> PICK s \in Slots :
      /\ Seen(s, "READING")
      /\ Request(s) \in DBKinds
      /\ pool' = [pool EXCEPT ![s] = [@ EXCEPT
                    !.db_data = "allocated",
                    !.db_request_sender =
                       IF Request(s) = "extrato" THEN "extrato" ELSE "transacao"]]
      /\ Queue!queu_push(s)
  BY DEF OnReadQueued
<1> DEFINE r == [pool[s] EXCEPT !.db_data = "allocated",
                    !.db_request_sender =
                       IF Request(s) = "extrato" THEN "extrato" ELSE "transacao"]
<1>1. /\ r.last_event = "READING" /\ r.client_fd = pool[s].client_fd
      /\ r.db_request_sender = IF Request(s) = "extrato" THEN "extrato" ELSE "transacao"
  BY SeenSlot, SlotFields DEF ReqRes, SlotInv
<1>2. /\ pool' = [pool EXCEPT ![s] = r] /\ peer' = peer /\ kind' = kind /\ got' = got
      /\ pg' = pg /\ heap' = heap \cup {s} /\ sq' = sq /\ inflight' = inflight
      /\ commits' = commits /\ orphans' = orphans
  BY DEF OnReadQueued, peerVars, dbVars, Queue!queu_push
<1> HIDE DEF r
<1>3. pool'[s] = r /\ \A x \in Slots : x # s => pool'[x] = pool[x]
  BY <1>2, OtherSlots
<1> PICK c : c = pool[s].client_fd
  OBVIOUS
<1>4. c \in Clients /\ Request(s) = kind[c] /\ kind[c] \in {"extrato", "transacao"}
  BY ReadRequest, KnownKind DEF DBKinds, Sound, BodiesParse
<1>5. SlotTruth(s)'
  <2>1. ForDatabase(c)' /\ SenderOf(c)' = pool'[s].db_request_sender
    BY <1>1, <1>2, <1>3, <1>4 DEF ForDatabase, SenderOf
  <2>2. pool'[s].client_fd = c /\ pool'[s].last_event = "READING"
    BY <1>1, <1>3
  <2> QED BY <2>1, <2>2 DEF SlotTruth, Responding
<1>6. LinksUp'
  BY <1>2 DEF PromiseInv, LinksUp
<1>7. /\ \A x \in Clients : Fresh(x)' => Fresh(x)
      /\ \A d \in DBConns, x \in Clients : RunsOn(d, x)' => RunsOn(d, x)
  <2>1. \A x \in Entries' : x \in Entries /\ x.slot # s
    BY SeenEntry
  <2>2. Fresh(c)
    BY ReadRequest
  <2> QED BY <1>1, <1>2, <1>3, <2>1, <2>2, FreshMove DEF RunsOn
<1>8. \A x : x # s /\ HasOp(x)' => HasOp(x)
  BY <1>2 DEF HasOp
<1> QED BY <1>2, <1>3, <1>5, <1>6, <1>7, <1>8, PromiseMoves

LEMMA RespondingPromise ==
  ASSUME TypeInv, SlotInv, PeerInv, AnswerInv, PromiseInv, OnDbResponding
  PROVE  PromiseInv'
<1> PICK d : \E s \in Slots : Seen(s, "DB_RESPONDING") /\ d = pool[s].dbconn
  BY DEF OnDbResponding
<1>0. PICK s \in Slots :
      /\ d = pool[s].dbconn
      /\ Seen(s, "DB_RESPONDING")
      /\ Result(d) # "polling"
      /\ pg' = [pg EXCEPT ![d] = Cleared(d)]
      /\ pool' = [pool EXCEPT ![s] = Writing(@,
           end_async(@.db_response_handler, Result(d), @.client_fd, pg[d].query))]
      /\ Submit(Op("write", s))
  BY DEF OnDbResponding, Seen
<1> PICK c, h, r : c = pool[s].client_fd /\ h = pool[s].db_response_handler /\ r = Result(d)
  OBVIOUS
<1> DEFINE a == end_async(h, r, c, pg[d].query)
           w == Writing(pool[s], a)
<1>1. pool[s].last_event = "DB_RESPONDING" /\ s \notin heap
  BY <1>0, SeenSlot DEF SlotInv
<1>2. /\ d \in DBConns /\ c \in Clients /\ got[c] = <<>> /\ ForDatabase(c) /\ h = SenderOf(c)
      /\ kind[c] = "transacao" => (pg[d].reply = "ok" <=> commits[c] = 1)
  BY <1>0, <1>1 DEF TypeInv, HasConn, PeerInv, SlotSockets, PromiseInv, SlotTruth, Responding
<1>3. pg[d].link = "up" /\ pg[d].query = c /\ c # NULL
  BY <1>0, <1>1, <1>2, NoPeerAssumption DEF PromiseInv, LinksUp, AnswerInv, ConnInv, Responding
<1>4. pg[d] \in Pgs
  BY <1>2 DEF TypeInv, DbTypes
<1>5. r = pg[d].reply /\ r \in {"ok", "null", "error"}
  BY <1>0, <1>3, <1>4 DEF Result, Pgs
<1>6. a.status = "OK" <=> r = "ok"
  BY <1>2, <1>5, EndStatus DEF SenderOf
<1>7. /\ pool' = [pool EXCEPT ![s] = w] /\ peer' = peer /\ kind' = kind /\ got' = got
      /\ commits' = commits /\ orphans' = orphans /\ heap' = heap
  BY <1>0 DEF OnDbResponding, peerVars, queueVars
<1> HIDE DEF a
<1>8. w.last_event = "WRITING" /\ w.client_fd = c /\ w.buffer = a
  BY SlotFields DEF Writing, ReqRes
<1> HIDE DEF w
<1>9. pool'[s] = w /\ \A x \in Slots : x # s => pool'[x] = pool[x]
  BY <1>7, OtherSlots
<1>10. SlotTruth(s)'
  <2>1. /\ s \notin heap' /\ pool'[s].client_fd = c /\ pool'[s].last_event = "WRITING"
        /\ pool'[s].buffer.status = "OK" <=> r = "ok"
    BY <1>1, <1>6, <1>7, <1>8, <1>9
  <2>2. /\ got'[c] = <<>> /\ ForDatabase(c)'
        /\ kind'[c] = "transacao" => (r = "ok" <=> commits'[c] = 1)
    BY <1>2, <1>5, <1>7 DEF ForDatabase
  <2> QED BY <2>1, <2>2 DEF SlotTruth, Responding
<1>11. Cleared(d).link = "up"
  BY <1>3, <1>4, <1>5 DEF Cleared, Pgs
<1>12. pg'[d] = Cleared(d) /\ \A e \in DBConns : e # d => pg'[e] = pg[e]
  BY <1>0, <1>2 DEF TypeInv, DbTypes
<1>13. LinksUp'
  BY <1>11, <1>12 DEF PromiseInv, LinksUp
<1>14. \A x \in Slots : x # s /\ Responding(x) => pg'[pool[x].dbconn].reply = pg[pool[x].dbconn].reply
  BY <1>0, <1>1, <1>12 DEF AnswerInv, ConnInv, TypeInv, HasConn, Responding
<1>15. \A e \in DBConns, x \in Clients : RunsOn(e, x)' => RunsOn(e, x)
  BY <1>0, <1>2, ClearedRuns
<1>16. \A x \in Clients : Fresh(x)' => Fresh(x)
  <2>1. \A x \in Entries' : x \in Entries /\ x.slot # s
    BY <1>0, SeenEntry
  <2> QED BY <1>7, <1>8, <1>9, <2>1, FreshMove
<1>17. \A x : x # s /\ HasOp(x)' => HasOp(x)
  BY <1>0, SubmitOnly
<1> QED BY <1>7, <1>9, <1>10, <1>13, <1>14, <1>15, <1>16, <1>17, PromiseMoves

LEMMA AcceptedPromise ==
  ASSUME TypeInv, SlotInv, PeerInv, PromiseInv, OnAccepted
  PROVE  PromiseInv'
<1>0. PICK s \in Slots, t \in Slots :
      /\ Seen(s, "ACCEPTTING")
      /\ Least(t, FreeSlots)
      /\ pool' = [pool EXCEPT
           ![s] = [@ EXCEPT !.client_fd = Head(cq).fd, !.last_event = "READING"],
           ![t] = Accepting]
      /\ \/ Submitted({Op("read", s), Op("accept", t)})
         \/ NotSubmitted({Op("read", s), Op("accept", t)})
         \/ /\ inflight' = inflight \cup sq \cup {Op("read", s)}
            /\ sq' = {Op("accept", t)}
  BY DEF OnAccepted
<1> DEFINE r == [pool[s] EXCEPT !.client_fd = Head(cq).fd, !.last_event = "READING"]
<1>1. /\ peer' = peer /\ kind' = kind /\ got' = got /\ pg' = pg /\ heap' = heap
      /\ commits' = commits /\ orphans' = orphans
      /\ pool' = [[pool EXCEPT ![s] = r] EXCEPT ![t] = Accepting]
  BY <1>0 DEF OnAccepted, dbVars, peerVars, queueVars
<1>2. r.last_event = "READING"
  BY SlotFields DEF ReqRes
<1> HIDE DEF r
<1>3. s \notin heap /\ pool[s].ring
  BY <1>0, SeenSlot DEF SlotInv
<1>4. t \notin heap /\ t # s
  BY <1>0, <1>3 DEF Least, FreeSlots, SlotInv, PushedOnce
<1>5. /\ pool'[s] = r /\ pool'[t] = Accepting
      /\ \A x \in Slots : x # s /\ x # t => pool'[x] = pool[x]
  BY <1>1, <1>4 DEF TypeInv, ServerTypes
<1>6. \A x : x # s /\ x # t /\ HasOp(x)' => HasOp(x)
  <2>1. sq' \cup inflight' = sq \cup inflight \cup {Op("read", s), Op("accept", t)}
    BY <1>0, SubmitAdds
  <2> QED BY <2>1, OpFields DEF HasOp
<1>7. ASSUME NEW x \in Slots PROVE SlotTruth(x)'
  <2>1. CASE x = s \/ x = t
    BY <1>1, <1>2, <1>3, <1>4, <1>5, <2>1, SlotTruthIdle, ZeroedFields
  <2>2. CASE x # s /\ x # t
    BY <1>1, <1>5, <1>6, <2>2, SlotTruthKept DEF PromiseInv
  <2> QED BY <2>1, <2>2
<1>8. LinksUp'
  BY <1>1 DEF PromiseInv, LinksUp
<1>9. ~ OnAcceptedFull /\ ~ OnReadExit
  BY <1>0 DEF OnAcceptedFull, OnReadExit, Least, Seen
<1>10. /\ \A x \in Clients : Fresh(x)' => Fresh(x)
       /\ \A d \in DBConns, x \in Clients : RunsOn(d, x)' => RunsOn(d, x)
  BY <1>9, LoopFresh DEF ServerLoop
<1> QED BY <1>1, <1>7, <1>8, <1>10, PromiseKept

\* Nobody has asked for the end of the process.
LEMMA NobodyExits ==
  ASSUME Sound, TypeInv, SlotInv, PeerInv
  PROVE  ~ OnReadExit
<1> SUFFICES ASSUME OnReadExit PROVE FALSE
  OBVIOUS
<1> PICK s \in Slots : /\ cq # <<>> /\ s = Head(cq).slot /\ ~ Head(cq).failed
                       /\ pool[s].last_event = "READING" /\ Request(s) = "exit"
  BY DEF OnReadExit
<1>1. Head(cq) \in Entries
  BY DEF TypeInv, RingTypes, Entries
<1>2. pool[s].buffer.about = pool[s].client_fd /\ pool[s].client_fd \in Clients
  BY <1>1 DEF PeerInv, OwnRequest, SlotSockets, Finished
<1> QED BY <1>2, KnownKind DEF Request, Sound

LEMMA LoopPromise ==
  ASSUME Sound, TypeInv, SlotInv, PeerInv, AnswerInv, CommitInv, PromiseInv, ServerLoop
  PROVE  PromiseInv'
<1>1. CASE OnAcceptedFull
  BY <1>1, ExitPromise DEF OnAcceptedFull, RunsOn
<1>2. ~ OnReadExit
  BY NobodyExits
<1>3. CASE OnWritten
  <2> PICK s \in Slots : /\ Seen(s, "WRITING")
                         /\ pool' = [pool EXCEPT ![s].last_event = "CLOSING"]
                         /\ Submit(Op("close", s))
    BY <1>3 DEF OnWritten
  <2> DEFINE r == [pool[s] EXCEPT !.last_event = "CLOSING"]
  <2>1. r.last_event = "CLOSING"
    BY SlotFields DEF ReqRes
  <2>2. /\ pool' = [pool EXCEPT ![s] = r] /\ peer' = peer /\ kind' = kind /\ got' = got
        /\ pg' = pg /\ heap' = heap /\ s \notin heap
    BY <1>3, SeenSlot DEF OnWritten, peerVars, dbVars, queueVars, SlotInv
  <2> HIDE DEF r
  <2>3. pool'[s] = r /\ \A x \in Slots : x # s => pool'[x] = pool[x]
    BY <2>2, OtherSlots
  <2>4. SlotTruth(s)' /\ LinksUp'
    BY <2>1, <2>2, <2>3, SlotTruthIdle DEF PromiseInv, LinksUp
  <2>5. ~ OnAcceptedFull
    BY DEF OnAcceptedFull, Seen
  <2>6. \A x : x # s /\ HasOp(x)' => HasOp(x)
    BY SubmitOnly
  <2> QED BY <1>2, <2>2, <2>3, <2>4, <2>5, <2>6, LoopFresh, PromiseMoves
<1>4. CASE OnClosed
  <2> PICK s \in Slots : Seen(s, "CLOSING") /\ pool' = [pool EXCEPT ![s] = Zeroed]
    BY <1>4 DEF OnClosed
  <2>1. /\ peer' = peer /\ kind' = kind /\ got' = got /\ sq' = sq /\ inflight' = inflight
        /\ pg' = pg /\ heap' = heap /\ s \notin heap
    BY <1>4, SeenSlot DEF OnClosed, peerVars, dbVars, queueVars, SlotInv
  <2>2. pool'[s] = Zeroed /\ \A x \in Slots : x # s => pool'[x] = pool[x]
    BY OtherSlots
  <2>3. SlotTruth(s)' /\ LinksUp'
    BY <2>1, <2>2, SlotTruthIdle, ZeroedFields DEF PromiseInv, LinksUp
  <2>4. ~ OnAcceptedFull
    BY DEF OnAcceptedFull, Seen
  <2>5. \A x : HasOp(x)' => HasOp(x)
    BY <2>1 DEF HasOp
  <2> QED BY <1>2, <2>1, <2>2, <2>3, <2>4, <2>5, LoopFresh, PromiseMoves
<1>5. CASE OnError
  <2>1. /\ peer' = peer /\ kind' = kind /\ got' = got /\ sq' = sq /\ inflight' = inflight
        /\ pg' = pg /\ heap' = heap /\ pool' = pool /\ commits' = commits
    BY <1>5 DEF OnError, peerVars, dbVars, queueVars
  <2>2. \A x : HasOp(x)' => HasOp(x)
    BY <2>1 DEF HasOp
  <2>3. \A x \in Slots : SlotTruth(x)'
    BY <2>1, <2>2, SlotTruthKept DEF PromiseInv
  <2>4. LinksUp'
    BY <2>1 DEF PromiseInv, LinksUp
  <2>5. ~ OnAcceptedFull
    BY <1>5 DEF OnAcceptedFull, OnError
  <2> QED BY <1>2, <2>1, <2>3, <2>4, <2>5, LoopFresh, PromiseKept
<1> QED BY <1>1, <1>2, <1>3, <1>4, <1>5, AcceptedPromise, AnsweredPromise, QueuedPromise,
           RespondingPromise DEF ServerLoop

\* The peer that a slot answers is not fresh, and nothing runs for it.
LEMMA AnsweredIsDone ==
  ASSUME TypeInv, PeerInv, AnswerInv, PromiseInv, NEW s \in Slots, pool[s].last_event = "WRITING"
  PROVE  LET c == pool[s].client_fd
         IN  c \in Clients /\ ~ Fresh(c) /\ ~ Runs(c) /\ c \notin orphans
<1> PICK c : c = pool[s].client_fd
  OBVIOUS
<1>1. c \in Clients /\ peer[c] = "open" /\ Holds(s, c) /\ c # NULL
  BY NoPeerAssumption DEF PeerInv, SlotSockets, Holds
<1>2. \A x \in Slots : Holds(x, c) => x = s
  BY <1>1 DEF PeerInv, OneHolder, Holds
<1>3. ~ Fresh(c)
  BY <1>1, <1>2 DEF Fresh, PeerInv, NewSockets
<1>4. ~ Runs(c)
  <2> SUFFICES ASSUME NEW d \in DBConns, RunsOn(d, c) PROVE FALSE
    BY DEF Runs
  <2>1. PICK x \in Slots : Owns(x, d)
    BY <1>1 DEF AnswerInv, ConnInv, RunsOn
  <2>2. pool[x].client_fd = c
    BY <2>1 DEF AnswerInv, ConnInv, Owns, RunsOn
  <2> QED BY <1>2, <2>1, <2>2 DEF Owns, Responding, Holds
<1>5. c \notin orphans
  BY <1>1 DEF PromiseInv, KindInv
<1> QED BY <1>1, <1>3, <1>4, <1>5

LEMMA WrittenPromise ==
  ASSUME TypeInv, SlotInv, PeerInv, AnswerInv, PromiseInv, CompleteWrite
  PROVE  PromiseInv'
<1>0. PICK o \in inflight :
      /\ o.op = "write"
      /\ got' = [got EXCEPT ![pool[o.slot].client_fd] = Append(@, pool[o.slot].buffer)]
      /\ inflight' = inflight \ {o}
  BY DEF CompleteWrite, Complete
<1>1. /\ pool' = pool /\ pg' = pg /\ heap' = heap /\ peer' = peer /\ kind' = kind
      /\ commits' = commits /\ orphans' = orphans /\ sq' = sq
  BY DEF CompleteWrite, serverVars, queueVars, dbVars
<1>2. o.slot \in Slots /\ pool[o.slot].last_event = "WRITING"
  BY <1>0, EventOfOp
<1> PICK s, c : s = o.slot /\ c = pool[s].client_fd
  OBVIOUS
<1>3. /\ c \in Clients /\ ~ Fresh(c) /\ ~ Runs(c) /\ c \notin orphans
      /\ s \in Slots /\ pool[s].last_event = "WRITING" /\ c # NULL
  BY <1>2, AnsweredIsDone, NoPeerAssumption
<1>4. \A x \in Clients : x # c => got'[x] = got[x]
  BY <1>0 DEF TypeInv, PeerTypes
<1>5. \A x \in Clients : Fresh(x)' => Fresh(x)
  BY KernelFresh DEF Kernel
<1>6. \A x \in Clients : Runs(x)' <=> Runs(x)
  BY <1>1 DEF Runs, RunsOn
<1>7. KindInv'
  <2>1. \A x \in Clients : ForDatabase(x)' <=> ForDatabase(x)
    BY <1>1 DEF ForDatabase
  <2> QED BY <1>1, <1>6, <2>1 DEF PromiseInv, KindInv
<1>8. SilentInv'
  <2> SUFFICES ASSUME NEW x \in Clients, Fresh(x)' \/ Runs(x)' \/ x \in orphans'
               PROVE  got'[x] = <<>>
    BY DEF SilentInv
  <2>1. Fresh(x) \/ Runs(x) \/ x \in orphans
    BY <1>1, <1>5, <1>6
  <2> QED BY <1>3, <1>4, <2>1 DEF PromiseInv, SilentInv
<1>9. LinksUp'
  BY <1>1 DEF PromiseInv, LinksUp
<1>10. ~ HasOp(s)'
  BY <1>0, <1>1 DEF HasOp, SlotInv, OneOperation
<1>11. ASSUME NEW x \in Slots PROVE SlotTruth(x)'
  <2>1. CASE x = s
    <3>1. s \notin heap' /\ pool'[s].last_event = "WRITING"
      BY <1>1, <1>3 DEF SlotInv, PushedOnce
    <3> QED BY <1>10, <2>1, <3>1 DEF SlotTruth, Responding
  <2>2. CASE x # s /\ pool[x].last_event \in {"ACCEPTTING", "CLOSING"}
    BY <1>1, <2>2, SlotTruthIdle DEF SlotInv, PushedOnce
  <2>3. CASE x # s /\ pool[x].last_event \notin {"ACCEPTTING", "CLOSING"}
    <3>1. pool[x].client_fd \in Clients /\ pool[x].client_fd # c
      BY <1>3, <2>3 DEF PeerInv, SlotSockets, OneHolder, Holds
    <3>2. HasOp(x)' => HasOp(x)
      BY <1>0, <1>1 DEF HasOp
    <3> QED BY <1>1, <1>4, <3>1, <3>2, SlotTruthKept DEF PromiseInv
  <2> QED BY <2>1, <2>2, <2>3
<1> QED BY <1>7, <1>8, <1>9, <1>11 DEF PromiseInv

LEMMA KernelPromise ==
  ASSUME TypeInv, SlotInv, PeerInv, AnswerInv, PromiseInv, Kernel
  PROVE  PromiseInv'
<1>1. CASE CompleteWrite
  BY <1>1, WrittenPromise
<1>2. CASE ~ CompleteWrite
  <2>1. pg' = pg /\ heap' = heap /\ kind' = kind /\ got' = got /\ sq' = sq
    BY <1>2 DEF Kernel, CompleteAccept, CompleteRead, CompleteClose, CompleteDbRead, CompleteError,
       peerVars, dbVars, queueVars
  <2>2. inflight' \subseteq inflight
    BY <1>2 DEF Kernel, CompleteAccept, CompleteRead, CompleteClose, CompleteDbRead, CompleteError,
       Complete
  <2>3. \A x : HasOp(x)' => HasOp(x)
    BY <2>1, <2>2 DEF HasOp
  <2>4. LinksUp'
    BY <2>1 DEF PromiseInv, LinksUp
  <2>5. /\ commits' = commits /\ orphans' = orphans
        /\ \A c \in Clients : Fresh(c)' => Fresh(c)
    BY KernelFresh
  <2>6. \A d \in DBConns, c \in Clients : RunsOn(d, c)' => RunsOn(d, c)
    BY <2>1 DEF RunsOn
  <2>7. \A c \in Clients : /\ peer'[c] = "idle" <=> peer[c] = "idle"
                           /\ peer[c] = "closed" => peer'[c] = "closed"
    <3>1. peer \in [Clients -> {"idle", "backlog", "open", "closed"}]
      BY DEF TypeInv, PeerTypes
    <3>2. CASE CompleteAccept
      <4>1. peer[Head(backlog)] = "backlog" /\ peer' = [peer EXCEPT ![Head(backlog)] = "open"]
        BY <3>2, BacklogTail DEF CompleteAccept, PeerInv
      <4> QED BY <3>1, <4>1
    <3>3. CASE CompleteClose
      <4>1. PICK o \in inflight :
              o.op = "close" /\ peer' = [peer EXCEPT ![pool[o.slot].client_fd] = "closed"]
        BY <3>3 DEF CompleteClose
      <4>2. o.slot \in Slots /\ pool[o.slot].last_event = "CLOSING"
        BY <4>1, EventOfOp
      <4>3. peer[pool[o.slot].client_fd] \in {"open", "closed"}
        BY <4>2 DEF PeerInv, SlotSockets
      <4> QED BY <3>1, <4>1, <4>3
    <3>4. CASE ~ CompleteAccept /\ ~ CompleteClose
      BY <1>2, <3>4 DEF Kernel, CompleteRead, CompleteDbRead, CompleteError, peerVars
    <3> QED BY <3>2, <3>3, <3>4
  <2>8. ASSUME NEW x \in Slots PROVE SlotTruth(x)'
    <3>1. CASE pool'[x] = pool[x]
      BY <2>1, <2>3, <2>5, <3>1, SlotTruthKept DEF PromiseInv
    <3>2. CASE CompleteRead
      <4>0. PICK o \in inflight :
              /\ o.op = "read"
              /\ pool' = [pool EXCEPT ![o.slot].buffer = Text("request", pool[o.slot].client_fd)]
        BY <3>2 DEF CompleteRead
      <4> DEFINE r == [pool[o.slot] EXCEPT !.buffer = Text("request", pool[o.slot].client_fd)]
      <4>1. o.slot \in Slots /\ pool[o.slot].last_event = "READING" /\ o.slot \notin heap
        BY <4>0, EventOfOp, OpUnderWay
      <4>2. r.last_event = "READING"
        BY <4>1, SlotFields DEF ReqRes
      <4>3. pool' = [pool EXCEPT ![o.slot] = r]
        BY <4>0
      <4> HIDE DEF r
      <4>4. pool'[o.slot] = r /\ (x # o.slot => pool'[x] = pool[x])
        BY <4>1, <4>3, OtherSlots
      <4>5. CASE x = o.slot
        BY <2>1, <4>1, <4>2, <4>4, <4>5, SlotTruthIdle
      <4> QED BY <3>1, <4>4, <4>5
    <3>3. CASE ~ CompleteRead
      <4>1. pool' = pool
        BY <1>2, <3>3 DEF Kernel, CompleteAccept, CompleteClose, CompleteDbRead, CompleteError,
           serverVars
      <4> QED BY <3>1, <4>1
    <3> QED BY <3>2, <3>3
  <2> QED BY <2>1, <2>4, <2>5, <2>6, <2>7, <2>8, PromiseKept
<1> QED BY <1>1, <1>2

\* A backend, or nobody's backend, has applied the transaction of c with reply r.
LEMMA AppliedPromise ==
  ASSUME TypeInv, PromiseInv, CommitInv, NEW c \in Clients, Runs(c) \/ c \in orphans,
         NEW r \in Replies(c), Applied(c, r)
  PROVE  /\ \A x \in Clients : x # c => commits'[x] = commits[x]
         /\ kind[c] = "transacao" => (r = "ok" <=> commits'[c] = 1)
         /\ commits'[c] = 1 => kind[c] = "transacao"
         /\ r \in {"ok", "null", "error"}
<1>1. commits \in [Clients -> Nat] /\ commits[c] = 0
  BY DEF TypeInv, DbTypes, CommitInv
<1>2. kind[c] \in {"extrato", "transacao"}
  BY DEF PromiseInv, KindInv, ForDatabase
<1>3. r \in {"ok", "null", "error"}
  BY OutcomesAssumption DEF Replies
<1>4. CASE r = "ok" /\ kind[c] # "extrato"
  BY <1>1, <1>2, <1>3, <1>4 DEF Applied
<1>5. CASE ~ (r = "ok" /\ kind[c] # "extrato")
  <2>1. commits' = commits
    BY <1>5 DEF Applied
  <2> QED BY <1>1, <1>2, <1>3, <1>5, <2>1
<1> QED BY <1>4, <1>5

LEMMA BackendPromise ==
  ASSUME TypeInv, SlotInv, PeerInv, AnswerInv, CommitInv, PromiseInv, BackendRuns
  PROVE  PromiseInv'
<1>0. PICK d \in DBConns :
        /\ pg[d].link = "up" /\ pg[d].query # NULL /\ pg[d].reply = "none"
        /\ \E r \in Replies(pg[d].query) :
             pg' = [pg EXCEPT ![d].reply = r] /\ Applied(pg[d].query, r)
  BY DEF BackendRuns
<1> PICK c : c = pg[d].query
  OBVIOUS
<1>1. PICK r \in Replies(c) : pg' = [pg EXCEPT ![d].reply = r] /\ Applied(c, r)
  BY <1>0
<1>2. pg \in [DBConns -> Pgs]
  BY DEF TypeInv, DbTypes
<1>3. c \in Clients /\ RunsOn(d, c) /\ Runs(c)
  BY <1>0, <1>2 DEF Pgs, RunsOn, Runs
<1>4. /\ \A x \in Clients : x # c => commits'[x] = commits[x]
      /\ kind[c] = "transacao" => (r = "ok" <=> commits'[c] = 1)
      /\ commits'[c] = 1 => kind[c] = "transacao"
      /\ r # "none"
  BY <1>1, <1>3, AppliedPromise
<1>5. /\ pool' = pool /\ cq' = cq /\ sq' = sq /\ inflight' = inflight /\ heap' = heap
      /\ orphans' = orphans /\ peer' = peer /\ kind' = kind /\ got' = got
  BY DEF BackendRuns, serverVars, queueVars, ringVars, peerVars
<1>6. /\ pg'[d].reply = r /\ pg'[d].link = "up" /\ \A e \in DBConns : e # d => pg'[e] = pg[e]
  BY <1>0, <1>1, <1>2 DEF Pgs
<1>7. /\ \A x \in Clients : Fresh(x)' => Fresh(x)
      /\ \A x \in Clients : ForDatabase(x)' <=> ForDatabase(x)
      /\ \A x : HasOp(x)' <=> HasOp(x)
  BY <1>5 DEF Fresh, Entries, Arrived, Finished, Holds, ForDatabase, HasOp
<1>8. \A x \in Clients : Runs(x)' => Runs(x)
  BY <1>4, <1>6 DEF Runs, RunsOn
<1>9. KindInv'
  BY <1>4, <1>5, <1>7, <1>8 DEF PromiseInv, KindInv
<1>10. SilentInv'
  BY <1>5, <1>7, <1>8 DEF PromiseInv, SilentInv
<1>11. LinksUp'
  BY <1>6 DEF PromiseInv, LinksUp
<1>12. PICK s \in Slots : Owns(s, d)
  BY <1>0 DEF AnswerInv, ConnInv
<1>13. /\ pool[s].client_fd = c /\ pool[s].dbconn = d /\ pool[s].last_event = "DB_RESPONDING"
       /\ s \notin heap
  BY <1>12 DEF AnswerInv, ConnInv, Owns, Responding, SlotInv, PushedOnce
<1>14. ASSUME NEW x \in Slots PROVE SlotTruth(x)'
  <2>1. CASE x = s
    <3>1. got[c] = <<>> /\ ForDatabase(c) /\ pool[s].db_response_handler = SenderOf(c)
      BY <1>13 DEF PromiseInv, SlotTruth, Responding
    <3>2. got'[c] = <<>> /\ ForDatabase(c)' /\ pool'[s].db_response_handler = SenderOf(c)'
      BY <1>5, <3>1 DEF ForDatabase, SenderOf
    <3>3. kind'[c] = "transacao" => (pg'[d].reply = "ok" <=> commits'[c] = 1)
      BY <1>4, <1>5, <1>6
    <3>4. /\ pool'[s].client_fd = c /\ pool'[s].dbconn = d
          /\ pool'[s].last_event = "DB_RESPONDING" /\ s \notin heap'
      BY <1>5, <1>13
    <3> QED BY <2>1, <3>2, <3>3, <3>4 DEF SlotTruth
  <2>2. CASE x # s /\ pool[x].last_event \in {"ACCEPTTING", "CLOSING"}
    BY <1>5, <2>2, SlotTruthIdle DEF SlotInv, PushedOnce
  <2>3. CASE x # s /\ pool[x].last_event \notin {"ACCEPTTING", "CLOSING"}
    <3>1. pool[x].client_fd \in Clients /\ pool[x].client_fd # c
      BY <1>3, <1>13, <2>3, NoPeerAssumption DEF PeerInv, SlotSockets, OneHolder, Holds
    <3>2. Responding(x) => pg'[pool[x].dbconn] = pg[pool[x].dbconn]
      BY <1>6, <1>12, <2>3 DEF AnswerInv, ConnInv, Owns, TypeInv, HasConn, Responding
    <3> QED BY <1>4, <1>5, <1>7, <3>1, <3>2, SlotTruthKept DEF PromiseInv
  <2> QED BY <2>1, <2>2, <2>3
<1> QED BY <1>9, <1>10, <1>11, <1>14 DEF PromiseInv

LEMMA OrphanPromise ==
  ASSUME TypeInv, SlotInv, PeerInv, CommitInv, PromiseInv, OrphanRuns
  PROVE  PromiseInv'
<1> PICK c \in orphans : orphans' = orphans \ {c} /\ \E r \in Replies(c) : Applied(c, r)
  BY DEF OrphanRuns
<1> PICK r \in Replies(c) : Applied(c, r)
  OBVIOUS
<1>1. c \in Clients
  BY DEF TypeInv, DbTypes
<1>2. /\ \A x \in Clients : x # c => commits'[x] = commits[x]
      /\ commits'[c] = 1 => kind[c] = "transacao"
  BY <1>1, AppliedPromise
<1>3. peer[c] = "closed"
  BY <1>1 DEF PromiseInv, KindInv
<1>4. /\ pool' = pool /\ cq' = cq /\ sq' = sq /\ inflight' = inflight /\ heap' = heap
      /\ pg' = pg /\ peer' = peer /\ kind' = kind /\ got' = got
  BY DEF OrphanRuns, serverVars, queueVars, ringVars, peerVars
<1>5. /\ \A x \in Clients : Fresh(x)' => Fresh(x)
      /\ \A x \in Clients : ForDatabase(x)' <=> ForDatabase(x)
      /\ \A x \in Clients : Runs(x)' <=> Runs(x)
      /\ \A x : HasOp(x)' <=> HasOp(x)
  BY <1>4 DEF Fresh, Entries, Arrived, Finished, Holds, ForDatabase, HasOp, Runs, RunsOn
<1>6. KindInv'
  BY <1>1, <1>2, <1>4, <1>5 DEF PromiseInv, KindInv
<1>7. SilentInv' /\ LinksUp'
  BY <1>4, <1>5 DEF PromiseInv, SilentInv, LinksUp
<1>8. ASSUME NEW x \in Slots PROVE SlotTruth(x)'
  <2>1. CASE pool[x].last_event \in {"ACCEPTTING", "CLOSING"}
    BY <1>4, <2>1, SlotTruthIdle DEF SlotInv, PushedOnce
  <2>2. CASE pool[x].last_event \notin {"ACCEPTTING", "CLOSING"}
    <3>1. pool[x].client_fd \in Clients /\ pool[x].client_fd # c
      BY <1>3, <2>2 DEF PeerInv, SlotSockets
    <3> QED BY <1>2, <1>4, <1>5, <3>1, SlotTruthKept DEF PromiseInv
  <2> QED BY <2>1, <2>2
<1> QED BY <1>6, <1>7, <1>8 DEF PromiseInv

LEMMA ConnectPromise ==
  ASSUME TypeInv, SlotInv, PeerInv, CommitInv, PromiseInv, Connect
  PROVE  PromiseInv'
<1>0. PICK c \in Clients, k \in Kinds :
        /\ peer[c] = "idle"
        /\ peer' = [peer EXCEPT ![c] = "backlog"]
        /\ kind' = [kind EXCEPT ![c] = k]
  BY DEF Connect
<1>1. k # "none"
  BY KindsAssumption DEF AllKinds, DBKinds, StaticAnswer
<1>2. /\ pool' = pool /\ cq' = cq /\ sq' = sq /\ inflight' = inflight /\ heap' = heap
      /\ pg' = pg /\ got' = got /\ commits' = commits /\ orphans' = orphans
  BY DEF Connect, serverVars, queueVars, ringVars, dbVars
<1>3. /\ peer'[c] = "backlog" /\ kind'[c] = k
      /\ \A x \in Clients : x # c => peer'[x] = peer[x] /\ kind'[x] = kind[x]
  BY <1>0 DEF TypeInv, PeerTypes
<1>4. Fresh(c) /\ ~ Runs(c) /\ c \notin orphans /\ commits[c] = 0
  BY <1>0 DEF Fresh, CommitInv
<1>5. /\ \A x \in Clients : Fresh(x)' => Fresh(x)
      /\ \A x \in Clients : x # c => (ForDatabase(x)' <=> ForDatabase(x))
      /\ \A x \in Clients : Runs(x)' <=> Runs(x)
      /\ \A x : HasOp(x)' <=> HasOp(x)
  <2>1. \A x \in Clients : peer'[x] \in {"idle", "backlog"} => peer[x] \in {"idle", "backlog"}
    BY <1>0, <1>3
  <2> QED BY <1>2, <1>3, <2>1 DEF Fresh, Entries, Arrived, Finished, Holds, ForDatabase, HasOp, Runs, RunsOn
<1>6. KindInv'
  <2> SUFFICES ASSUME NEW x \in Clients
               PROVE  /\ kind'[x] = "none" <=> peer'[x] = "idle"
                      /\ commits'[x] = 1 => kind'[x] = "transacao"
                      /\ Runs(x)' \/ x \in orphans' => ForDatabase(x)'
                      /\ x \in orphans' => peer'[x] = "closed"
    BY DEF KindInv
  <2>1. CASE x = c
    BY <1>1, <1>2, <1>3, <1>4, <1>5, <2>1
  <2>2. CASE x # c
    BY <1>2, <1>3, <1>5, <2>2 DEF PromiseInv, KindInv
  <2> QED BY <2>1, <2>2
<1>7. SilentInv' /\ LinksUp'
  BY <1>2, <1>5 DEF PromiseInv, SilentInv, LinksUp
<1>8. ASSUME NEW x \in Slots PROVE SlotTruth(x)'
  <2>1. CASE pool[x].last_event \in {"ACCEPTTING"}
    BY <1>2, <2>1, SlotTruthIdle DEF SlotInv, PushedOnce
  <2>2. CASE pool[x].last_event \notin {"ACCEPTTING"}
    <3>1. pool[x].client_fd \in Clients /\ pool[x].client_fd # c
      BY <1>0, <2>2 DEF PeerInv, SlotSockets
    <3> QED BY <1>2, <1>3, <1>5, <3>1, SlotTruthKept DEF PromiseInv
  <2> QED BY <2>1, <2>2
<1> QED BY <1>6, <1>7, <1>8 DEF PromiseInv

LEMMA PromiseStep ==
  ASSUME Sound
  PROVE  TypeInv /\ SlotInv /\ PeerInv /\ AnswerInv /\ CommitInv /\ PromiseInv /\ [Next]_vars
           => PromiseInv'
<1> SUFFICES ASSUME TypeInv, SlotInv, PeerInv, AnswerInv, CommitInv, PromiseInv, [Next]_vars
             PROVE  PromiseInv'
  OBVIOUS
<1>1. CASE Crash
  BY <1>1, ExitPromise DEF Crash, RunsOn
<1>2. CASE UNCHANGED vars
  <2>1. /\ pool' = pool /\ cq' = cq /\ sq' = sq /\ inflight' = inflight /\ heap' = heap
        /\ pg' = pg /\ commits' = commits /\ orphans' = orphans
        /\ peer' = peer /\ kind' = kind /\ got' = got
    BY <1>2 DEF vars, serverVars, queueVars, ringVars, dbVars, peerVars
  <2>2. \A s \in Slots : SlotTruth(s)'
    <3> TAKE s \in Slots
    <3>1. HasOp(s)' => HasOp(s)
      BY <2>1 DEF HasOp
    <3> QED BY <2>1, <3>1, SlotTruthKept DEF PromiseInv
  <2>3. LinksUp'
    BY <2>1 DEF PromiseInv, LinksUp
  <2>4. /\ \A c \in Clients : Fresh(c)' => Fresh(c)
        /\ \A d \in DBConns, c \in Clients : RunsOn(d, c)' => RunsOn(d, c)
    BY <2>1 DEF Fresh, Entries, Arrived, Finished, Holds, RunsOn
  <2> QED BY <2>1, <2>2, <2>3, <2>4, PromiseKept
<1>3. CASE Boot
  <2>1. /\ pool' = [pool EXCEPT ![0] = Accepting] /\ 0 \in Slots /\ cq' = cq /\ cq = <<>>
        /\ sq' = sq /\ inflight = {} /\ inflight' = {Op("accept", 0)} /\ heap' = heap /\ heap = {}
        /\ peer' = peer /\ pg' = pg /\ commits' = commits /\ orphans' = orphans
        /\ kind' = kind /\ got' = got
    BY <1>3, SlotsNonEmpty DEF Boot, SlotInv, DownIsEmpty, dbVars, peerVars, queueVars
  <2>2. pool'[0] = Accepting /\ \A s \in Slots : s # 0 => pool'[s] = pool[s]
    BY <2>1, OtherSlots
  <2>3. Entries' = {}
    BY <2>1 DEF Entries
  <2>4. \A x \in Clients : Fresh(x)' => Fresh(x)
    BY <2>1, <2>2, <2>3, FreshMove, ZeroedFields
  <2>5. \A x : x # 0 /\ HasOp(x)' => HasOp(x)
    BY <2>1, OpFields DEF HasOp
  <2>6. LinksUp'
    BY <2>1 DEF PromiseInv, LinksUp
  <2>7. SlotTruth(0)'
    BY <2>1, <2>2, SlotTruthIdle, ZeroedFields
  <2> QED BY <2>1, <2>2, <2>4, <2>5, <2>6, <2>7, PromiseMoves DEF RunsOn
<1>4. ~ CutLink
  <2>1. faults.cut \in Nat
    BY DEF TypeInv, FaultTypes
  <2>2. ~ (faults.cut < 0)
    BY <2>1
  <2> QED BY <2>2 DEF CutLink, Sound
<1> QED BY <1>1, <1>2, <1>3, <1>4, DispatchPromise, LoopPromise, KernelPromise, BackendPromise,
           OrphanPromise, ConnectPromise DEF Next, World

\* Without faulty bodies, exits and cut links, what a slot, the library and the
\* database know of a request agree until its answer is with the client.
THEOREM PromiseInvariant ==
  ASSUME Sound
  PROVE  Spec => []PromiseInv
<1>1. TypeInv /\ SlotInv /\ PeerInv /\ AnswerInv /\ CommitInv /\ PromiseInv /\ [Next]_vars
        => PromiseInv'
  BY PromiseStep
<1>2. BodiesParse
  BY DEF Sound
<1>3. Spec => []AnswerInv
  BY <1>2, AnswerInvariant
<1> QED BY <1>1, <1>3, PromiseInit, TypeInvariant, SlotInvariant, PeerInvariant, CommitInvariant,
           PTL DEF Spec
-----------------------------------------------------------------------------
(***************************************************************************)
(* The server implements Service: a step of the server is a step of        *)
(* Service, or leaves what a client can see alone.                         *)
(***************************************************************************)
\* The answers of a peer, as Service counts them.
Said(b) == [about |-> b.about, done |-> b.status = "OK"]

LEMMA NothingSaid ==
  ASSUME NEW f, f = <<>>
  PROVE  [i \in DOMAIN f |-> [about |-> f[i].about, done |-> f[i].status = "OK"]] = <<>>
  OBVIOUS

LEMMA OneSaid ==
  ASSUME NEW b, NEW f, f = Append(<<>>, b)
  PROVE  [i \in DOMAIN f |-> [about |-> f[i].about, done |-> f[i].status = "OK"]] = << Said(b) >>
<1>1. f = <<b>>
  OBVIOUS
<1>2. DOMAIN f = {1} /\ f[1] = b
  BY <1>1
<1> QED BY <1>2 DEF Said

LEMMA PromiseStarts == Init => Promise!Init
<1> SUFFICES ASSUME Init PROVE Promise!Init
  OBVIOUS
<1>1. /\ kind = [c \in Clients |-> "none"] /\ commits = [c \in Clients |-> 0]
      /\ got = [c \in Clients |-> <<>>]
  BY DEF Init
<1>2. \A c \in Clients :
        [i \in DOMAIN got[c] |-> [about |-> got[c][i].about, done |-> got[c][i].status = "OK"]] = <<>>
  BY <1>1, NothingSaid
<1> QED BY <1>1, <1>2 DEF Promise!Init

\* A backend that runs a command for c, or for nobody any more, is Apply(c).
LEMMA AppliedImplements ==
  ASSUME TypeInv, CommitInv, PromiseInv, NEW c \in Clients, Runs(c) \/ c \in orphans,
         NEW r \in Replies(c), Applied(c, r), kind' = kind, got' = got
  PROVE  Promise!Apply(c) \/ UNCHANGED Promise!svars
<1>1. commits \in [Clients -> Nat] /\ commits[c] = 0
  BY DEF TypeInv, DbTypes, CommitInv
<1>2. kind[c] \in {"extrato", "transacao"}
  BY DEF PromiseInv, KindInv, ForDatabase
<1>3. got[c] = <<>>
  BY DEF PromiseInv, SilentInv
<1>4. CASE r = "ok" /\ kind[c] # "extrato"
  <2>1. commits' = [commits EXCEPT ![c] = 1]
    BY <1>1, <1>4 DEF Applied
  <2>2. [i \in DOMAIN got[c] |-> [about |-> got[c][i].about, done |-> got[c][i].status = "OK"]] = <<>>
    BY <1>3, NothingSaid
  <2> QED BY <1>1, <1>2, <1>4, <2>1, <2>2 DEF Promise!Apply
<1>5. CASE ~ (r = "ok" /\ kind[c] # "extrato")
  BY <1>5 DEF Applied, Promise!svars
<1> QED BY <1>4, <1>5

\* A response written to the socket of c is Answer(c).
LEMMA WriteImplements ==
  ASSUME TypeInv, SlotInv, PeerInv, AnswerInv, PromiseInv, CompleteWrite
  PROVE  \E c \in Clients : Promise!Answer(c)
<1>0. PICK o \in inflight :
      /\ o.op = "write"
      /\ got' = [got EXCEPT ![pool[o.slot].client_fd] = Append(@, pool[o.slot].buffer)]
  BY DEF CompleteWrite
<1>1. kind' = kind /\ commits' = commits
  BY DEF CompleteWrite, dbVars
<1>2. o.slot \in Slots /\ pool[o.slot].last_event = "WRITING" /\ HasOp(o.slot)
  BY <1>0, EventOfOp DEF HasOp
<1> PICK c, b : c = pool[o.slot].client_fd /\ b = pool[o.slot].buffer
  OBVIOUS
<1>3. c \in Clients /\ b.about = c /\ peer[c] # "idle"
  BY <1>2 DEF PeerInv, SlotSockets, AnswerInv, TextInv
<1>4. /\ got[c] = <<>>
      /\ b.status = "OK" => ForDatabase(c)
      /\ kind[c] = "transacao" => (b.status = "OK" <=> commits[c] = 1)
  BY <1>2 DEF PromiseInv, SlotTruth
<1>5. kind[c] # "none"
  BY <1>3 DEF PromiseInv, KindInv
<1>6. kind[c] \in AllKinds \ {"transacao", "extrato"} => b.status # "OK"
  BY <1>4 DEF ForDatabase
<1>7. got \in [Clients -> Seq(Buffers)]
  BY DEF TypeInv, PeerTypes
<1>8. got'[c] = Append(<<>>, b) /\ \A x \in Clients : x # c => got'[x] = got[x]
  BY <1>0, <1>3, <1>4, <1>7
<1> DEFINE told == [x \in Clients |->
                      [i \in DOMAIN got[x] |->
                        [about |-> got[x][i].about, done |-> got[x][i].status = "OK"]]]
<1>9. told[c] = <<>>
  BY <1>3, <1>4, NothingSaid
<1>10. told' = [told EXCEPT ![c] = << Said(b) >>]
  <2>1. told'[c] = << Said(b) >>
    BY <1>3, <1>8, OneSaid
  <2>2. \A x \in Clients : x # c => told'[x] = told[x]
    BY <1>8
  <2> QED BY <2>1, <2>2
<1>11. Said(b) = [about |-> c, done |-> (b.status = "OK")]
  BY <1>3 DEF Said
<1>12. Promise!Answer(c)
  BY <1>1, <1>4, <1>5, <1>6, <1>9, <1>10, <1>11 DEF Promise!Answer
<1> QED BY <1>3, <1>12

\* A peer that connects is Ask(c).
LEMMA ConnectImplements ==
  ASSUME TypeInv, PromiseInv, Connect
  PROVE  \E c \in Clients : Promise!Ask(c)
<1>1. PICK c \in Clients, k \in Kinds : peer[c] = "idle" /\ kind' = [kind EXCEPT ![c] = k]
  BY DEF Connect
<1>2. commits' = commits /\ got' = got
  BY DEF Connect, dbVars
<1>3. kind[c] = "none"
  BY <1>1 DEF PromiseInv, KindInv
<1>4. k \in {"transacao"} \cup {"extrato"} \cup (AllKinds \ {"transacao", "extrato"})
  BY KindsAssumption
<1>5. Promise!Ask(c)
  BY <1>1, <1>2, <1>3, <1>4 DEF Promise!Ask
<1> QED BY <1>5

\* Every other step leaves what the clients asked, were told and got alone.
LEMMA SilentSteps ==
  ASSUME Sound, TypeInv, SlotInv, PeerInv, Next,
         ~ Connect, ~ BackendRuns, ~ OrphanRuns, ~ CompleteWrite, ~ OnReadExit
  PROVE  UNCHANGED <<kind, commits, got>>
<1>1. ASSUME NEW links, Exit(got, links) PROVE UNCHANGED <<kind, commits, got>>
  BY <1>1 DEF Exit
<1>2. CASE QueuDispatch
  BY <1>1, <1>2 DEF QueuDispatch, DispatchStart, DispatchNoConn, DispatchEmpty, DispatchRefuse,
     DispatchSend, DispatchFatal, dbVars, peerVars
<1>3. CASE ServerLoop
  BY <1>1, <1>3 DEF ServerLoop, OnError, OnAccepted, OnAcceptedFull, OnReadAnswered, OnReadQueued,
     OnDbResponding, OnWritten, OnClosed, dbVars, peerVars
<1>4. CASE Kernel
  BY <1>4 DEF Kernel, CompleteAccept, CompleteRead, CompleteClose, CompleteDbRead, CompleteError,
     dbVars, peerVars
<1>5. CASE Crash \/ Boot \/ CutLink
  BY <1>1, <1>5 DEF Crash, Boot, CutLink, dbVars, peerVars
<1> QED BY <1>2, <1>3, <1>4, <1>5 DEF Next, World

LEMMA ServerImplements ==
  ASSUME Sound, TypeInv, SlotInv, PeerInv, AnswerInv, CommitInv, PromiseInv, [Next]_vars
  PROVE  [Promise!Next]_(Promise!svars)
<1>1. CASE Connect
  BY <1>1, ConnectImplements DEF Promise!Next
<1>2. CASE CompleteWrite
  BY <1>2, WriteImplements DEF Promise!Next
<1>3. CASE BackendRuns
  <2> PICK d \in DBConns :
        /\ pg[d].link = "up" /\ pg[d].query # NULL /\ pg[d].reply = "none"
        /\ \E r \in Replies(pg[d].query) : Applied(pg[d].query, r)
    BY <1>3 DEF BackendRuns
  <2> PICK c : c = pg[d].query
    OBVIOUS
  <2>1. PICK r \in Replies(c) : Applied(c, r)
    OBVIOUS
  <2>2. c \in Clients /\ Runs(c)
    BY DEF TypeInv, DbTypes, Pgs, RunsOn, Runs
  <2>3. kind' = kind /\ got' = got
    BY <1>3 DEF BackendRuns, peerVars
  <2> QED BY <2>1, <2>2, <2>3, AppliedImplements DEF Promise!Next
<1>4. CASE OrphanRuns
  <2> PICK c \in orphans : \E r \in Replies(c) : Applied(c, r)
    BY <1>4 DEF OrphanRuns
  <2>1. PICK r \in Replies(c) : Applied(c, r)
    OBVIOUS
  <2>2. c \in Clients
    BY DEF TypeInv, DbTypes
  <2>3. kind' = kind /\ got' = got
    BY <1>4 DEF OrphanRuns, peerVars
  <2> QED BY <2>1, <2>2, <2>3, AppliedImplements DEF Promise!Next
<1>5. CASE UNCHANGED vars
  BY <1>5 DEF vars, dbVars, peerVars, Promise!svars
<1>6. CASE Next /\ ~ Connect /\ ~ BackendRuns /\ ~ OrphanRuns /\ ~ CompleteWrite
  BY <1>6, NobodyExits, SilentSteps DEF Promise!svars
<1> QED BY <1>1, <1>2, <1>3, <1>4, <1>5, <1>6

\* The API keeps its promise across restarts and failed operations, for any
\* number of slots, connections and peers: each client gets at most one answer,
\* about its own request, which says OK exactly when its transaction was
\* applied, once, and after that answer nothing is applied any more (main.c:159-
\* 263 with db.c and server.c).  Sound names what the code needs for that.
THEOREM ServerImplementsService ==
  ASSUME Sound
  PROVE  Spec => KeepsPromise
<1>1. TypeInv /\ SlotInv /\ PeerInv /\ AnswerInv /\ CommitInv /\ PromiseInv /\ [Next]_vars
        => [Promise!Next]_(Promise!svars)
  BY ServerImplements
<1>2. BodiesParse
  BY DEF Sound
<1>3. Spec => []AnswerInv
  BY <1>2, AnswerInvariant
<1>4. Spec => []PromiseInv
  BY PromiseInvariant
<1> QED BY <1>1, <1>3, <1>4, PromiseStarts, TypeInvariant, SlotInvariant, PeerInvariant,
           CommitInvariant, PTL DEF Spec, KeepsPromise, Promise!Spec
=============================================================================
