--------------------------- MODULE QueueSignalProofs ---------------------------
(***************************************************************************)
(* The queue statement by statement under SIGINT: outside a call that the  *)
(* handler cut short the statements are the calls of RequestQueue, and the *)
(* program ends cleanly unless the signal found it at a torn statement;    *)
(* for any number of requests.                                             *)
(***************************************************************************)
EXTENDS QueueSignal, RequestQueueProofs

PushLines == {"push:29", "push:31", "push:35", "push:37", "push:38"}
PopLines == {"pop:42", "pop:44", "pop:48", "pop:49", "pop:50"}
EndLines == {"io_uring_queue_exit", "deinit_dbconns_arena", "exit"}

Pointer == Items \cup {NULL}
FrameRecs ==
  [at : PushLines \cup PopLines \cup EndLines \cup {"loop", "none"}, caller : {"loop", "free_queu"},
   ret : Pointer, new_first : Pointer]

\* The frame that runs.
Top == IF frame["handler"].at = "none" THEN "main" ELSE "handler"

\* Only the loop pushes, and only from it are the closing lines not reached.
Shape(f) ==
  /\ frame[f].at \in PushLines => frame[f].ret \in Items
  /\ frame[f].at \in PushLines \cup {"loop"} => f = "main" /\ frame[f].caller = "loop"
  /\ frame[f].at \in EndLines => frame[f].caller = "free_queu"
  /\ f = "handler" /\ frame[f].at # "none" => frame[f].caller = "free_queu"

FrameTypes ==
  /\ QTypeOK
  /\ frame \in [Frames -> FrameRecs]
  /\ frame["main"].at # "none"
  /\ \A f \in Frames : Shape(f)

\* What is closed, for the frame r.
Closed(r) ==
  /\ ring = IF r.caller = "loop" \/ r.at = "io_uring_queue_exit" THEN "open" ELSE "closed"
  /\ conns = IF r.caller = "loop" \/ r.at \in {"io_uring_queue_exit", "deinit_dbconns_arena"}
             THEN "open" ELSE "closed"

\* The cell of a push: linked behind the others, or alone in an empty list.
Unlinked(x) == \A y \in heap : next[y] # x

\* The queue as each line of frame r finds it.  QInv holds everywhere but after
\* the first of the two assignments to first and last, and where the head is freed.
PushOK(r) ==
  /\ r.at \in {"push:29", "push:31"} => r.ret \in Items \ heap
  /\ r.at = "push:35" => r.ret \in heap /\ next[r.ret] = NULL /\ Unlinked(r.ret) /\ r.ret \notin {first, last}
  /\ r.at = "push:37" => r.ret \in heap /\ r.ret # first /\ (first = NULL => Unlinked(r.ret))
  /\ r.at = "push:38" => /\ Linked /\ last = r.ret /\ r.ret \in heap
                         /\ first # NULL => first \in heap
                         /\ first = NULL => Unlinked(r.ret)
PopOK(r) ==
  /\ r.at = "pop:48" => first # NULL /\ r.ret = first /\ r.new_first = next[first]
  /\ r.at \in {"pop:49", "pop:50"} =>
       /\ r.ret \in Items /\ r.new_first \in heap \cup {NULL}
       /\ \A x \in heap : next[x] \in heap \cup {NULL}
       /\ \A x, y \in heap : next[x] = next[y] /\ next[x] # NULL => x = y
       /\ \A x \in heap : next[x] = r.new_first => r.new_first = NULL
  /\ r.at = "pop:50" => first = r.new_first
LineOK(r) ==
  /\ Closed(r) /\ PushOK(r) /\ PopOK(r)
  /\ r.at \notin {"push:38", "pop:49", "pop:50"} => QInv
  /\ r.at = "exit" => first = NULL

\* How far frame r has taken the queue from where the last call left it.
Follows(r) ==
  LET x == r.ret
      pushing == r.at \in {"push:35", "push:37", "push:38"}
      popping == r.at \in {"pop:49", "pop:50"}
      cleared == [settled.next EXCEPT ![x] = NULL]
      linked == IF settled.last = NULL THEN cleared ELSE [cleared EXCEPT ![settled.last] = x]
  IN  /\ first = IF r.at = "pop:50" THEN settled.next[x] ELSE settled.first
      /\ last = IF r.at = "push:38" THEN x ELSE settled.last
      /\ heap = IF pushing THEN settled.heap \cup {x}
                ELSE IF popping THEN settled.heap \ {x} ELSE settled.heap
      /\ next = IF r.at = "push:35" THEN cleared ELSE IF pushing THEN linked ELSE settled.next
      /\ pushing => x \notin settled.heap
      /\ popping => x = settled.first
      /\ r.at = "pop:49" => r.new_first = settled.next[x]

SignalInv ==
  /\ FrameTypes
  /\ end = "running" /\ ~ Torn => LineOK(frame[Top])
  /\ end = "running" /\ ~ CutShort => Follows(frame[Top])
  /\ CleanExit
-----------------------------------------------------------------------------
\* One frame moves to record r.
LEMMA Moves ==
  ASSUME FrameTypes, NEW f \in Frames, Top = f, NEW r \in FrameRecs, r.at # "none",
         frame' = [frame EXCEPT ![f] = r]
  PROVE  /\ frame' \in [Frames -> FrameRecs] /\ frame'[f] = r /\ Top' = f
         /\ \A g \in Frames : g # f => frame'[g] = frame[g]
         /\ (Torn <=> Torn') /\ (CutShort <=> CutShort')
<1>1. /\ frame' \in [Frames -> FrameRecs] /\ frame'[f] = r
      /\ \A g \in Frames : g # f => frame'[g] = frame[g]
  BY DEF FrameTypes
<1>2. "main" \in Frames /\ "handler" \in Frames /\ (f = "main" \/ f = "handler") /\ "main" # "handler"
  BY DEF Frames
<1>3. CASE f = "main"
  <2>1. frame["handler"].at = "none" /\ frame'["handler"].at = "none"
    BY <1>1, <1>2, <1>3 DEF Top
  <2> QED BY <1>1, <1>3, <2>1 DEF Top, Torn, CutShort, SignalledAt
<1>4. CASE f = "handler"
  <2>1. frame["handler"].at # "none" /\ frame'["handler"].at # "none" /\ frame'["main"] = frame["main"]
    BY <1>1, <1>2, <1>4 DEF Top
  <2> QED BY <1>1, <1>4, <2>1 DEF Top, Torn, CutShort, SignalledAt
<1> QED BY <1>1, <1>2, <1>3, <1>4

\* The fields of a frame that goes to another line.
LEMMA GoFields ==
  ASSUME FrameTypes, NEW f \in Frames, NEW line \in PushLines \cup PopLines \cup EndLines \cup {"loop", "none"}
  PROVE  /\ frame[f] \in FrameRecs
         /\ [frame EXCEPT ![f].at = line] = [frame EXCEPT ![f] = [frame[f] EXCEPT !.at = line]]
         /\ [frame[f] EXCEPT !.at = line] \in FrameRecs
         /\ [frame[f] EXCEPT !.at = line].at = line
         /\ [frame[f] EXCEPT !.at = line].caller = frame[f].caller
         /\ [frame[f] EXCEPT !.at = line].ret = frame[f].ret
         /\ [frame[f] EXCEPT !.at = line].new_first = frame[f].new_first
<1>1. frame[f] \in FrameRecs
  BY DEF FrameTypes
<1> QED BY <1>1 DEF FrameTypes, FrameRecs

LEMMA BeforeTop ==
  ASSUME NEW f \in Frames, NEW line, Before(f, line), line # "none"
  PROVE  Top = f /\ end = "running" /\ frame[f].at = line
  BY DEF Before, Frames, Top

LEMMA TornIsCut == Torn => CutShort
  BY DEF Torn, CutShort, SignalledAt

\* A statement that takes the running frame to record r.
LEMMA StatementKept ==
  ASSUME SignalInv, NEW f \in Frames, Top = f, NEW r \in FrameRecs, r.at # "none",
         frame' = [frame EXCEPT ![f] = r], end = "running", end' = "running", QTypeOK',
         r.caller = frame[f].caller,
         r.at \in PushLines => r.ret \in Items,
         r.at \in PushLines \cup {"loop"} => f = "main" /\ r.caller = "loop",
         r.at \in EndLines => r.caller = "free_queu",
         LineOK(frame[f]) => LineOK(r)',
         LineOK(frame[f]) /\ Follows(frame[f]) /\ ~ CutShort => Follows(r)'
  PROVE  SignalInv'
<1>1. /\ frame' \in [Frames -> FrameRecs] /\ frame'[f] = r /\ Top' = f
      /\ \A g \in Frames : g # f => frame'[g] = frame[g]
      /\ (Torn <=> Torn') /\ (CutShort <=> CutShort')
  BY Moves DEF SignalInv
<1>2. \A g \in Frames : Shape(g)'
  <2>1. Shape(f)'
    <3>1. f = "handler" => frame[f].caller = "free_queu"
      BY DEF SignalInv, FrameTypes, Shape, Top
    <3> QED BY <1>1, <3>1 DEF Shape
  <2>2. \A g \in Frames : g # f => Shape(g)'
    BY <1>1 DEF SignalInv, FrameTypes, Shape
  <2> QED BY <2>1, <2>2
<1>3. frame'["main"].at # "none"
  BY <1>1 DEF SignalInv, FrameTypes, Frames
<1>4. FrameTypes'
  BY <1>1, <1>2, <1>3 DEF FrameTypes
<1>5. ~ Torn' => LineOK(r)'
  BY <1>1 DEF SignalInv
<1>6. ~ CutShort' => Follows(r)'
  BY <1>1, TornIsCut DEF SignalInv
<1>7. CleanExit'
  BY DEF CleanExit
<1> QED BY <1>1, <1>4, <1>5, <1>6, <1>7 DEF SignalInv

\* A statement that ends the program.
LEMMA EndKept ==
  ASSUME SignalInv, NEW f \in Frames, Top = f, end = "running", frame' = frame, end' # "running", QTypeOK',
         LineOK(frame[f]) =>
           /\ end' \in {"exit 0", "MEMERROR"}
           /\ end' = "exit 0" => first' = NULL /\ last' = NULL /\ ring' = "closed" /\ conns' = "closed"
  PROVE  SignalInv'
<1>1. /\ (Torn <=> Torn') /\ (CutShort <=> CutShort') /\ Top' = Top
  BY DEF Torn, CutShort, SignalledAt, Top
<1>2. FrameTypes'
  BY DEF SignalInv, FrameTypes, Shape
<1>3. CleanExit'
  BY <1>1 DEF CleanExit, SignalInv
<1> QED BY <1>1, <1>2, <1>3 DEF SignalInv

LEMMA QueueSame ==
  ASSUME QTypeOK, UNCHANGED qvars
  PROVE  /\ QTypeOK' /\ (QInv => QInv') /\ (Linked => Linked')
         /\ \A x : Unlinked(x) => Unlinked(x)'
  BY DEF qvars, QTypeOK, QInv, NoDangling, Linked, Unlinked

LEMMA TestKeeps ==
  ASSUME SignalInv, NEW f \in Frames, unreachable_test(f)
  PROVE  SignalInv'
<1> PICK call \in {"push", "pop"} :
      /\ Before(f, IF call = "push" THEN "push:29" ELSE "pop:42")
      /\ IF first = NULL /\ last # NULL THEN End("UNREACHABLE")
         ELSE Go(f, IF call = "push" THEN "push:31" ELSE "pop:44")
      /\ UNCHANGED qvars /\ Outside
  BY DEF unreachable_test
<1> DEFINE old == IF call = "push" THEN "push:29" ELSE "pop:42"
           new == IF call = "push" THEN "push:31" ELSE "pop:44"
<1>1. Top = f /\ end = "running" /\ frame[f].at = old
  BY BeforeTop
<1>2. QTypeOK' /\ (QInv => QInv') /\ ring' = ring /\ conns' = conns
  BY QueueSame DEF SignalInv, FrameTypes, Outside
<1>3. CASE first = NULL /\ last # NULL
  <2>1. ~ LineOK(frame[f])
    BY <1>1, <1>3 DEF LineOK, QInv, NoDangling
  <2> QED BY <1>1, <1>2, <1>3, <2>1, EndKept DEF End
<1>4. CASE ~ (first = NULL /\ last # NULL)
  <2>1. Go(f, new)
    BY <1>4
  <2> PICK r : r = [frame[f] EXCEPT !.at = new]
    OBVIOUS
  <2>2. /\ r \in FrameRecs /\ r.at = new /\ r.caller = frame[f].caller /\ r.ret = frame[f].ret
        /\ frame' = [frame EXCEPT ![f] = r] /\ end' = end /\ settled' = settled
    BY <2>1, GoFields DEF SignalInv, Go, PushLines, PopLines
  <2>3. LineOK(frame[f]) => LineOK(r)'
    BY <1>1, <1>2, <2>2 DEF LineOK, Closed, PushOK, PopOK, qvars
  <2>4. Follows(frame[f]) => Follows(r)'
    BY <1>1, <2>2 DEF Follows, qvars
  <2>5. /\ r.at \in PushLines => frame[f].at \in PushLines
        /\ r.at \notin EndLines \cup {"loop", "none"}
    BY <1>1, <2>2 DEF PushLines, EndLines
  <2>6. Shape(f)
    BY DEF SignalInv, FrameTypes
  <2> QED BY <1>1, <1>2, <2>2, <2>3, <2>4, <2>5, <2>6, StatementKept DEF Shape
<1> QED BY <1>3, <1>4

LEMMA CallocKeeps ==
  ASSUME SignalInv, NEW f \in Frames, push_calloc(f)
  PROVE  SignalInv'
<1>1. Top = f /\ end = "running" /\ frame[f].at = "push:31"
  BY BeforeTop DEF push_calloc
<1>2. frame[f].ret \in Items /\ Shape(f) /\ QTypeOK
  BY <1>1 DEF SignalInv, FrameTypes, Shape, PushLines
<1>3. CASE End("MEMERROR") /\ UNCHANGED qvars
  BY <1>1, <1>2, <1>3, QueueSame, EndKept DEF End
<1>4. CASE /\ heap' = heap \cup {frame[f].ret}
           /\ next' = [next EXCEPT ![frame[f].ret] = NULL]
           /\ Go(f, "push:35")
           /\ UNCHANGED <<first, last>>
  <2> PICK r : r = [frame[f] EXCEPT !.at = "push:35"]
    OBVIOUS
  <2>1. /\ r \in FrameRecs /\ r.at = "push:35" /\ r.caller = frame[f].caller /\ r.ret = frame[f].ret
        /\ frame' = [frame EXCEPT ![f] = r] /\ end' = end /\ settled' = settled
    BY <1>4, GoFields DEF SignalInv, Go, PushLines
  <2>2. QTypeOK'
    BY <1>2, <1>4 DEF QTypeOK
  <2>3. ASSUME LineOK(frame[f])
        PROVE  LineOK(r)'
    <3>1. QInv /\ r.ret \in Items \ heap
      BY <1>1, <2>1, <2>3 DEF LineOK, PushOK
    <3>2. /\ next'[r.ret] = NULL
          /\ \A y \in heap : next'[y] = next[y] /\ y # r.ret
      BY <1>4, <2>1, <3>1 DEF QInv, QTypeOK
    <3>3. QInv' /\ Unlinked(r.ret)' /\ r.ret \in heap' /\ r.ret \notin {first', last'}
      BY <1>4, <2>1, <2>2, <3>1, <3>2, NullAssumption DEF QInv, QTypeOK, NoDangling, Linked, Unlinked
    <3>4. Closed(r)'
      BY <1>1, <2>1, <2>3 DEF LineOK, Closed, push_calloc, Outside
    <3> QED BY <2>1, <3>2, <3>3, <3>4 DEF LineOK, PushOK, PopOK
  <2>4. LineOK(frame[f]) /\ Follows(frame[f]) => Follows(r)'
    <3>1. LineOK(frame[f]) => r.ret \notin heap
      BY <1>1, <2>1 DEF LineOK, PushOK
    <3> QED BY <1>1, <1>4, <2>1, <3>1 DEF Follows
  <2> QED BY <1>1, <1>2, <2>1, <2>2, <2>3, <2>4, StatementKept DEF Shape, PushLines, EndLines
<1> QED BY <1>3, <1>4 DEF push_calloc

LEMMA LinkKeeps ==
  ASSUME SignalInv, NEW f \in Frames, push_link(f)
  PROVE  SignalInv'
<1>1. Top = f /\ end = "running" /\ frame[f].at = "push:35"
  BY BeforeTop DEF push_link
<1>2. frame[f].ret \in Items /\ Shape(f) /\ QTypeOK
  BY <1>1 DEF SignalInv, FrameTypes, Shape, PushLines
<1>3. /\ first' = first /\ last' = last /\ heap' = heap /\ ring' = ring /\ conns' = conns
      /\ QTypeOK'
  BY <1>2 DEF push_link, Outside, QTypeOK
<1>4. CASE last # NULL /\ ~ Live(last)
  <2>1. ~ LineOK(frame[f])
    BY <1>1, <1>4 DEF LineOK, QInv, NoDangling, Live
  <2> QED BY <1>1, <1>3, <1>4, <2>1, EndKept DEF End, push_link
<1>5. CASE ~ (last # NULL /\ ~ Live(last))
  <2>1. Go(f, "push:37")
    BY <1>5 DEF push_link
  <2> PICK r : r = [frame[f] EXCEPT !.at = "push:37"]
    OBVIOUS
  <2>2. /\ r \in FrameRecs /\ r.at = "push:37" /\ r.caller = frame[f].caller /\ r.ret = frame[f].ret
        /\ frame' = [frame EXCEPT ![f] = r] /\ end' = end /\ settled' = settled
    BY <2>1, GoFields DEF SignalInv, Go, PushLines
  <2>3. next' = IF last = NULL THEN next ELSE [next EXCEPT ![last] = r.ret]
    BY <1>5, <2>2 DEF push_link
  <2>4. ASSUME LineOK(frame[f])
        PROVE  LineOK(r)'
    <3>1. /\ QInv /\ r.ret \in heap /\ next[r.ret] = NULL /\ Unlinked(r.ret) /\ r.ret \notin {first, last}
          /\ Closed(frame[f])
      BY <1>1, <2>2, <2>4 DEF LineOK, PushOK
    <3>2. /\ last # NULL => next'[last] = r.ret
          /\ \A y \in heap : y # last => next'[y] = next[y]
      BY <2>3, <3>1, NullAssumption DEF QInv, QTypeOK
    <3>3. Linked'
      BY <1>3, <3>1, <3>2, NullAssumption DEF QInv, QTypeOK, NoDangling, Linked, Unlinked
    <3>4. QInv' /\ (first' = NULL => Unlinked(r.ret)')
      <4>1. QInv'
        BY <1>3, <3>1, <3>3 DEF QInv, NoDangling
      <4>2. first = NULL => last = NULL /\ heap \subseteq Items
        BY <3>1 DEF QInv, NoDangling, QTypeOK
      <4> QED BY <1>3, <3>1, <3>2, <4>1, <4>2, NullAssumption DEF Unlinked
    <3>5. Closed(r)'
      BY <1>1, <1>3, <2>2, <3>1 DEF Closed
    <3> QED BY <1>3, <2>2, <3>1, <3>4, <3>5 DEF LineOK, PushOK, PopOK
  <2>5. Follows(frame[f]) => Follows(r)'
    BY <1>1, <1>3, <2>2, <2>3 DEF Follows
  <2> QED BY <1>1, <1>2, <1>3, <2>2, <2>4, <2>5, StatementKept DEF Shape, PushLines, EndLines
<1> QED BY <1>4, <1>5

LEMMA LastKeeps ==
  ASSUME SignalInv, NEW f \in Frames, push_last(f)
  PROVE  SignalInv'
<1>1. Top = f /\ end = "running" /\ frame[f].at = "push:37"
  BY BeforeTop DEF push_last
<1>2. frame[f].ret \in Items /\ Shape(f) /\ QTypeOK
  BY <1>1 DEF SignalInv, FrameTypes, Shape, PushLines
<1>3. /\ first' = first /\ last' = frame[f].ret /\ next' = next /\ heap' = heap
      /\ ring' = ring /\ conns' = conns /\ Go(f, "push:38")
      /\ QTypeOK'
  BY <1>2 DEF push_last, Outside, QTypeOK
<1> PICK r : r = [frame[f] EXCEPT !.at = "push:38"]
  OBVIOUS
<1>4. /\ r \in FrameRecs /\ r.at = "push:38" /\ r.caller = frame[f].caller /\ r.ret = frame[f].ret
      /\ frame' = [frame EXCEPT ![f] = r] /\ end' = end /\ settled' = settled
  BY <1>3, GoFields DEF SignalInv, Go, PushLines
<1>5. LineOK(frame[f]) => LineOK(r)'
  <2>1. LineOK(frame[f]) => QInv /\ PushOK(r)'
    BY <1>1, <1>3, <1>4 DEF LineOK, PushOK, QInv, NoDangling, Linked, Unlinked
  <2>2. LineOK(frame[f]) => Closed(r)'
    BY <1>1, <1>3, <1>4 DEF LineOK, Closed
  <2> QED BY <1>4, <2>1, <2>2 DEF LineOK, PopOK
<1>6. Follows(frame[f]) => Follows(r)'
  BY <1>1, <1>3, <1>4 DEF Follows
<1> QED BY <1>1, <1>2, <1>3, <1>4, <1>5, <1>6, StatementKept DEF Shape, PushLines, EndLines

\* A call that returns goes to record r, and the queue is settled.
LEMMA ReturnFields ==
  ASSUME FrameTypes, NEW f \in Frames, NEW ret, Return(f, ret)
  PROVE  \E r \in FrameRecs :
           /\ frame' = [frame EXCEPT ![f] = r] /\ end' = end
           /\ r.at = IF frame[f].caller = "loop" THEN "loop" ELSE IF ret = NULL THEN "exit" ELSE "pop:42"
           /\ r.caller = frame[f].caller /\ r.ret = frame[f].ret
           /\ ~ CutShort => settled' = [first |-> first', last |-> last', next |-> next', heap |-> heap']
<1>1. PICK line \in {"loop", "exit", "pop:42"} :
        line = IF frame[f].caller = "loop" THEN "loop" ELSE IF ret = NULL THEN "exit" ELSE "pop:42"
  OBVIOUS
<1> PICK r : r = [frame[f] EXCEPT !.at = line]
  OBVIOUS
<1>2. line \in PushLines \cup PopLines \cup EndLines \cup {"loop", "none"}
  BY DEF PopLines, EndLines
<1>3. /\ r \in FrameRecs /\ r.at = line /\ r.caller = frame[f].caller /\ r.ret = frame[f].ret
      /\ [frame EXCEPT ![f].at = line] = [frame EXCEPT ![f] = r]
  BY <1>2, GoFields
<1>4. frame' = [frame EXCEPT ![f].at = line] /\ end' = end
  BY <1>1 DEF Return
<1> QED BY <1>1, <1>3, <1>4 DEF Return

LEMMA ReturnKept ==
  ASSUME SignalInv, NEW f \in Frames, Top = f, end = "running", NEW ret, Return(f, ret),
         frame[f].at \in PushLines \cup PopLines, QTypeOK', ring' = ring, conns' = conns,
         LineOK(frame[f]) => QInv' /\ (ret = NULL => first' = NULL)
  PROVE  SignalInv'
<1>1. PICK r \in FrameRecs :
        /\ frame' = [frame EXCEPT ![f] = r] /\ end' = end
        /\ r.at = IF frame[f].caller = "loop" THEN "loop" ELSE IF ret = NULL THEN "exit" ELSE "pop:42"
        /\ r.caller = frame[f].caller /\ r.ret = frame[f].ret
        /\ ~ CutShort => settled' = [first |-> first', last |-> last', next |-> next', heap |-> heap']
  BY ReturnFields DEF SignalInv
<1>2. frame[f].caller \in {"loop", "free_queu"} /\ Shape(f) /\ frame[f].at # "none"
  BY DEF SignalInv, FrameTypes, FrameRecs, PushLines, PopLines
<1>3. r.caller = "loop" => f = "main"
  BY <1>1, <1>2 DEF Shape, Frames
<1>4. LineOK(frame[f]) => LineOK(r)'
  <2>1. LineOK(frame[f]) => Closed(r)'
    BY <1>1, <1>2 DEF LineOK, Closed, PushLines, PopLines
  <2> QED BY <1>1, <2>1 DEF LineOK, PushOK, PopOK
<1>5. ~ CutShort => Follows(r)'
  BY <1>1 DEF Follows
<1> QED BY <1>1, <1>2, <1>3, <1>4, <1>5, StatementKept DEF PushLines, EndLines

LEMMA FirstKeeps ==
  ASSUME SignalInv, NEW f \in Frames, push_first(f)
  PROVE  SignalInv'
<1>1. Top = f /\ end = "running" /\ frame[f].at = "push:38"
  BY BeforeTop DEF push_first
<1>2. frame[f].ret \in Items /\ QTypeOK
  BY <1>1 DEF SignalInv, FrameTypes, Shape, PushLines
<1>3. /\ first' = IF first = NULL THEN frame[f].ret ELSE first
      /\ last' = last /\ next' = next /\ heap' = heap /\ ring' = ring /\ conns' = conns
      /\ Return(f, frame[f].ret) /\ QTypeOK'
  BY <1>2 DEF push_first, Outside, QTypeOK
<1>4. ASSUME LineOK(frame[f])
      PROVE  QInv'
  <2>1. PushOK(frame[f])
    BY <1>4 DEF LineOK
  <2>2. Linked'
    BY <1>1, <1>3, <2>1 DEF PushOK, Linked, Unlinked
  <2>3. NoDangling'
    BY <1>1, <1>2, <1>3, <2>1, NullAssumption DEF PushOK, NoDangling
  <2> QED BY <1>3, <2>2, <2>3 DEF QInv
<1> QED BY <1>1, <1>2, <1>3, <1>4, ReturnKept, NullAssumption DEF PushLines

LEMMA HeadKeeps ==
  ASSUME SignalInv, NEW f \in Frames, pop_head(f)
  PROVE  SignalInv'
<1>1. Top = f /\ end = "running" /\ frame[f].at = "pop:44"
  BY BeforeTop DEF pop_head
<1>2. UNCHANGED qvars /\ QTypeOK /\ QTypeOK' /\ ring' = ring /\ conns' = conns /\ (QInv => QInv')
      /\ first' = first
  BY QueueSame DEF SignalInv, FrameTypes, pop_head, Outside, qvars
<1>3. LineOK(frame[f]) => QInv
  BY <1>1 DEF LineOK
<1>4. CASE first = NULL
  BY <1>1, <1>2, <1>3, <1>4, ReturnKept DEF pop_head, PopLines
<1>5. CASE first # NULL /\ ~ Live(first)
  <2>1. ~ LineOK(frame[f])
    BY <1>3, <1>5 DEF QInv, NoDangling, Live
  <2> QED BY <1>1, <1>2, <1>5, <2>1, EndKept DEF End, pop_head
<1>6. CASE first # NULL /\ Live(first)
  <2> PICK r : r = [frame[f] EXCEPT !.at = "pop:48", !.ret = first, !.new_first = next[first]]
    OBVIOUS
  <2>1. next[first] \in Pointer /\ first \in Pointer
    BY <1>2, <1>6 DEF QTypeOK, Pointer
  <2>2. /\ frame' = [frame EXCEPT ![f].at = "pop:48", ![f].ret = first, ![f].new_first = next[first]]
        /\ end' = end /\ settled' = settled
    BY <1>6 DEF pop_head
  <2>3. frame \in [Frames -> FrameRecs] /\ frame[f] \in FrameRecs
    BY DEF SignalInv, FrameTypes
  <2>4. /\ r \in FrameRecs /\ r.at = "pop:48" /\ r.caller = frame[f].caller /\ r.ret = first
        /\ r.new_first = next[first]
    BY <2>1, <2>3 DEF FrameRecs, PopLines
  <2>5. frame' = [frame EXCEPT ![f] = r]
    BY <2>2, <2>3 DEF FrameRecs
  <2>6. LineOK(frame[f]) => LineOK(r)'
    BY <1>1, <1>2, <1>6, <2>4 DEF LineOK, Closed, PushOK, PopOK, qvars
  <2>7. Follows(frame[f]) => Follows(r)'
    BY <1>1, <1>2, <2>2, <2>4 DEF Follows, qvars
  <2> QED BY <1>1, <1>2, <2>2, <2>4, <2>5, <2>6, <2>7, StatementKept DEF PushLines, EndLines
<1> QED BY <1>4, <1>5, <1>6

LEMMA FreeKeeps ==
  ASSUME SignalInv, NEW f \in Frames, pop_free(f)
  PROVE  SignalInv'
<1>1. Top = f /\ end = "running" /\ frame[f].at = "pop:48"
  BY BeforeTop DEF pop_free
<1>2. /\ first' = first /\ last' = last /\ next' = next /\ heap' = heap \ {first}
      /\ ring' = ring /\ conns' = conns /\ QTypeOK /\ QTypeOK'
  BY DEF pop_free, Outside, SignalInv, FrameTypes, QTypeOK
<1>3. CASE ~ Live(first)
  <2>1. ~ LineOK(frame[f])
    BY <1>1, <1>3 DEF LineOK, PopOK, QInv, NoDangling, Live
  <2> QED BY <1>1, <1>2, <1>3, <2>1, EndKept DEF End, pop_free
<1>4. CASE Live(first)
  <2> PICK r : r = [frame[f] EXCEPT !.at = "pop:49"]
    OBVIOUS
  <2>1. /\ r \in FrameRecs /\ r.at = "pop:49" /\ r.caller = frame[f].caller /\ r.ret = frame[f].ret
        /\ r.new_first = frame[f].new_first
        /\ frame' = [frame EXCEPT ![f] = r] /\ end' = end /\ settled' = settled
    BY <1>4, GoFields DEF SignalInv, pop_free, Go, PopLines
  <2>2. ASSUME LineOK(frame[f])
        PROVE  LineOK(r)'
    <3>1. /\ QInv /\ first # NULL /\ r.ret = first /\ r.new_first = next[first] /\ Closed(frame[f])
      BY <1>1, <2>1, <2>2 DEF LineOK, PopOK
    <3>2. first \in heap /\ first \in Items
      BY <3>1 DEF QInv, QTypeOK, NoDangling
    <3>3. PopOK(r)'
      BY <1>2, <2>1, <3>1, <3>2 DEF PopOK, QInv, Linked
    <3>4. Closed(r)'
      BY <1>1, <1>2, <2>1, <3>1 DEF Closed
    <3> QED BY <2>1, <3>3, <3>4 DEF LineOK, PushOK
  <2>3. LineOK(frame[f]) /\ Follows(frame[f]) => Follows(r)'
    <3>1. LineOK(frame[f]) => r.ret = first /\ r.new_first = next[first]
      BY <1>1, <2>1 DEF LineOK, PopOK
    <3> QED BY <1>1, <1>2, <2>1, <3>1 DEF Follows
  <2> QED BY <1>1, <1>2, <2>1, <2>2, <2>3, StatementKept DEF PushLines, EndLines
<1> QED BY <1>3, <1>4

LEMMA PopFirstKeeps ==
  ASSUME SignalInv, NEW f \in Frames, pop_first(f)
  PROVE  SignalInv'
<1>1. Top = f /\ end = "running" /\ frame[f].at = "pop:49"
  BY BeforeTop DEF pop_first
<1>2. /\ first' = frame[f].new_first /\ last' = last /\ next' = next /\ heap' = heap
      /\ ring' = ring /\ conns' = conns /\ QTypeOK'
  BY DEF pop_first, Outside, SignalInv, FrameTypes, QTypeOK, FrameRecs, Pointer
<1> PICK r : r = [frame[f] EXCEPT !.at = "pop:50"]
  OBVIOUS
<1>3. /\ r \in FrameRecs /\ r.at = "pop:50" /\ r.caller = frame[f].caller /\ r.ret = frame[f].ret
      /\ r.new_first = frame[f].new_first
      /\ frame' = [frame EXCEPT ![f] = r] /\ end' = end /\ settled' = settled
  BY GoFields DEF SignalInv, pop_first, Go, PopLines
<1>4. LineOK(frame[f]) => LineOK(r)'
  BY <1>1, <1>2, <1>3 DEF LineOK, PopOK, PushOK, Closed
<1>5. Follows(frame[f]) => Follows(r)'
  BY <1>1, <1>2, <1>3 DEF Follows
<1> QED BY <1>1, <1>2, <1>3, <1>4, <1>5, StatementKept DEF PushLines, EndLines

LEMMA PopLastKeeps ==
  ASSUME SignalInv, NEW f \in Frames, pop_last(f)
  PROVE  SignalInv'
<1>1. Top = f /\ end = "running" /\ frame[f].at = "pop:50"
  BY BeforeTop DEF pop_last
<1>2. /\ first' = first /\ next' = next /\ heap' = heap /\ ring' = ring /\ conns' = conns
      /\ first = NULL => last' = NULL
      /\ first # NULL /\ Live(first) => last' = next[first]
      /\ first # NULL /\ ~ Live(first) => last' = last
  BY DEF pop_last, Outside
<1>3. QTypeOK /\ QTypeOK'
  BY <1>2 DEF SignalInv, FrameTypes, QTypeOK, Live
<1>4. LineOK(frame[f]) => PopOK(frame[f]) /\ (first = NULL \/ Live(first))
  BY <1>1, NullAssumption DEF LineOK, PopOK, Live
<1>5. CASE first # NULL /\ ~ Live(first)
  <2>1. End("undefined")
    BY <1>5 DEF pop_last
  <2> QED BY <1>1, <1>3, <1>4, <1>5, <2>1, EndKept DEF End
<1>6. CASE ~ (first # NULL /\ ~ Live(first))
  <2>1. Return(f, frame[f].ret)
    BY <1>6 DEF pop_last
  <2>2. ASSUME LineOK(frame[f])
        PROVE  QInv' /\ frame[f].ret # NULL
    <3>1. PopOK(frame[f])
      BY <1>4, <2>2
    <3>2. NoDangling'
      BY <1>1, <1>2, <1>6, <3>1 DEF PopOK, NoDangling, Live
    <3>3. Linked'
      BY <1>1, <1>2, <3>1 DEF PopOK, Linked
    <3>4. frame[f].ret # NULL
      BY <1>1, <3>1, NullAssumption DEF PopOK
    <3> QED BY <1>3, <3>2, <3>3, <3>4 DEF QInv
  <2> QED BY <1>1, <1>2, <1>3, <2>1, <2>2, ReturnKept DEF PopLines
<1> QED BY <1>5, <1>6

LEMMA ClosingKeeps ==
  ASSUME SignalInv, NEW f \in Frames, io_uring_queue_exit(f) \/ deinit_dbconns_arena(f) \/ exit(f)
  PROVE  SignalInv'
<1>1. /\ UNCHANGED qvars /\ QTypeOK' /\ (QInv => QInv')
      /\ first' = first /\ last' = last
  BY QueueSame DEF SignalInv, FrameTypes, io_uring_queue_exit, deinit_dbconns_arena, exit, qvars
<1>2. Shape(f)
  BY DEF SignalInv, FrameTypes
<1>3. CASE io_uring_queue_exit(f)
  <2>1. Top = f /\ end = "running" /\ frame[f].at = "io_uring_queue_exit"
    BY <1>3, BeforeTop DEF io_uring_queue_exit
  <2>2. LineOK(frame[f]) => ring = "open" /\ Closed(frame[f])
    BY <2>1 DEF LineOK, Closed
  <2>3. CASE ring = "closed"
    BY <1>1, <1>3, <2>1, <2>2, <2>3, EndKept DEF io_uring_queue_exit, End
  <2>4. CASE ring # "closed"
    <3> PICK r : r = [frame[f] EXCEPT !.at = "deinit_dbconns_arena"]
      OBVIOUS
    <3>1. /\ r \in FrameRecs /\ r.at = "deinit_dbconns_arena" /\ r.caller = frame[f].caller
          /\ frame' = [frame EXCEPT ![f] = r] /\ end' = end /\ settled' = settled
      BY <1>3, <2>4, GoFields DEF SignalInv, io_uring_queue_exit, Go, EndLines
    <3>2. r.caller = "free_queu"
      BY <1>2, <2>1, <3>1 DEF Shape, EndLines
    <3>3. LineOK(frame[f]) => LineOK(r)'
      BY <1>1, <1>3, <2>1, <2>2, <3>1, <3>2 DEF io_uring_queue_exit, LineOK, Closed, PopOK, PushOK
    <3>4. Follows(frame[f]) => Follows(r)'
      BY <1>1, <2>1, <3>1 DEF Follows, qvars
    <3> QED BY <1>1, <2>1, <3>1, <3>2, <3>3, <3>4, StatementKept DEF PushLines
  <2> QED BY <2>3, <2>4
<1>4. CASE deinit_dbconns_arena(f)
  <2>1. Top = f /\ end = "running" /\ frame[f].at = "deinit_dbconns_arena"
    BY <1>4, BeforeTop DEF deinit_dbconns_arena
  <2>2. LineOK(frame[f]) => conns = "open" /\ Closed(frame[f])
    BY <2>1 DEF LineOK, Closed
  <2>3. CASE conns = "closed"
    BY <1>1, <1>4, <2>1, <2>2, <2>3, EndKept DEF deinit_dbconns_arena, End
  <2>4. CASE conns # "closed"
    <3> PICK r : r = [frame[f] EXCEPT !.at = "pop:42"]
      OBVIOUS
    <3>1. /\ r \in FrameRecs /\ r.at = "pop:42" /\ r.caller = frame[f].caller
          /\ frame' = [frame EXCEPT ![f] = r] /\ end' = end /\ settled' = settled
      BY <1>4, <2>4, GoFields DEF SignalInv, deinit_dbconns_arena, Go, PopLines
    <3>2. r.caller = "free_queu"
      BY <1>2, <2>1, <3>1 DEF Shape, EndLines
    <3>3. LineOK(frame[f]) => LineOK(r)'
      BY <1>1, <1>4, <2>1, <2>2, <3>1, <3>2 DEF deinit_dbconns_arena, LineOK, Closed, PopOK, PushOK
    <3>4. Follows(frame[f]) => Follows(r)'
      BY <1>1, <2>1, <3>1 DEF Follows, qvars
    <3> QED BY <1>1, <2>1, <3>1, <3>2, <3>3, <3>4, StatementKept DEF PushLines, EndLines
  <2> QED BY <2>3, <2>4
<1>5. CASE exit(f)
  <2>1. Top = f /\ end = "running" /\ frame[f].at = "exit"
    BY <1>5, BeforeTop DEF exit
  <2>2. frame[f].caller = "free_queu"
    BY <1>2, <2>1 DEF Shape, EndLines
  <2>3. LineOK(frame[f]) => first = NULL /\ last = NULL /\ ring = "closed" /\ conns = "closed"
    BY <2>1, <2>2 DEF LineOK, Closed, QInv, NoDangling
  <2> QED BY <1>1, <1>5, <2>1, <2>3, EndKept DEF exit, End, Outside
<1> QED BY <1>3, <1>4, <1>5

\* The loop begins a call, or ends and calls the handler.
LEMMA LoopKeeps ==
  ASSUME SignalInv, server_loop
  PROVE  SignalInv'
<1> DEFINE m == "main"
<1>1. m \in Frames /\ Top = m /\ end = "running" /\ frame[m].at = "loop" /\ end' = end /\ settled' = settled
  BY BeforeTop DEF server_loop, Frames
<1>2. /\ UNCHANGED qvars /\ QTypeOK /\ QTypeOK' /\ (QInv => QInv') /\ ring' = ring /\ conns' = conns
      /\ first' = first /\ heap' = heap
  BY QueueSame DEF SignalInv, FrameTypes, server_loop, Outside, qvars
<1>3. frame \in [Frames -> FrameRecs] /\ frame[m] \in FrameRecs /\ Shape(m)
  BY <1>1 DEF SignalInv, FrameTypes
<1>4. frame[m].caller = "loop"
  BY <1>1, <1>3 DEF Shape
<1>5. CASE \E x \in Items \ heap : frame' = [frame EXCEPT ![m].at = "push:29", ![m].ret = x]
  <2> PICK x \in Items \ heap : frame' = [frame EXCEPT ![m].at = "push:29", ![m].ret = x]
    BY <1>5
  <2> PICK r : r = [frame[m] EXCEPT !.at = "push:29", !.ret = x]
    OBVIOUS
  <2>1. r \in FrameRecs /\ r.at = "push:29" /\ r.caller = frame[m].caller /\ r.ret = x
    BY <1>3 DEF FrameRecs, PushLines, Pointer
  <2>2. frame' = [frame EXCEPT ![m] = r]
    BY <1>3 DEF FrameRecs
  <2>3. LineOK(frame[m]) => LineOK(r)'
    BY <1>1, <1>2, <2>1 DEF LineOK, Closed, PushOK, PopOK
  <2>4. Follows(frame[m]) => Follows(r)'
    BY <1>1, <1>2, <2>1 DEF Follows, qvars
  <2> QED BY <1>1, <1>2, <1>4, <2>1, <2>2, <2>3, <2>4, StatementKept DEF PushLines, EndLines
<1>6. CASE frame' = [frame EXCEPT ![m].at = "pop:42"]
  <2> PICK r : r = [frame[m] EXCEPT !.at = "pop:42"]
    OBVIOUS
  <2>1. /\ r \in FrameRecs /\ r.at = "pop:42" /\ r.caller = frame[m].caller /\ r.ret = frame[m].ret
        /\ frame' = [frame EXCEPT ![m] = r]
    BY <1>1, <1>6, GoFields DEF SignalInv, PopLines
  <2>2. LineOK(frame[m]) => LineOK(r)'
    BY <1>1, <1>2, <2>1 DEF LineOK, Closed, PushOK, PopOK
  <2>3. Follows(frame[m]) => Follows(r)'
    BY <1>1, <1>2, <2>1 DEF Follows, qvars
  <2> QED BY <1>1, <1>2, <2>1, <2>2, <2>3, StatementKept DEF PushLines, EndLines
<1>7. CASE frame' = [frame EXCEPT ![m].at = "io_uring_queue_exit", ![m].caller = "free_queu"]
  <2> PICK r : r = [frame[m] EXCEPT !.at = "io_uring_queue_exit", !.caller = "free_queu"]
    OBVIOUS
  <2>1. r \in FrameRecs /\ r.at = "io_uring_queue_exit" /\ r.caller = "free_queu"
    BY <1>3 DEF FrameRecs, EndLines
  <2>2. frame' = [frame EXCEPT ![m] = r]
    BY <1>1, <1>3, <1>7 DEF FrameRecs
  <2>3. LineOK(frame[m]) => LineOK(r)'
    BY <1>1, <1>2, <1>4, <2>1 DEF LineOK, Closed, PushOK, PopOK
  <2>4. Follows(frame[m]) => Follows(r)'
    BY <1>1, <1>2, <2>1 DEF Follows, qvars
  <2>5. /\ (Torn <=> Torn') /\ (CutShort <=> CutShort') /\ Top' = m /\ frame'[m] = r
        /\ \A g \in Frames : g # m => frame'[g] = frame[g]
        /\ frame' \in [Frames -> FrameRecs]
    BY <1>1, <2>1, <2>2, Moves DEF SignalInv
  <2>6. \A g \in Frames : Shape(g)'
    BY <2>1, <2>5 DEF SignalInv, FrameTypes, Shape, PushLines
  <2>7. FrameTypes'
    BY <1>2, <2>1, <2>5, <2>6 DEF FrameTypes
  <2>8. (~ Torn' => LineOK(r)') /\ (~ CutShort' => Follows(r)') /\ CleanExit'
    BY <1>1, <2>3, <2>4, <2>5 DEF SignalInv, CleanExit
  <2> QED BY <2>5, <2>7, <2>8 DEF SignalInv
<1> QED BY <1>5, <1>6, <1>7 DEF server_loop

\* The signal comes, and finds main at its line.
LEMMA SignalKeeps ==
  ASSUME SignalInv, Signal
  PROVE  SignalInv'
<1> DEFINE m == "main"
           h == "handler"
<1>1. /\ m \in Frames /\ h \in Frames /\ m # h /\ Top = m /\ end = "running" /\ frame[h].at = "none"
      /\ end' = end /\ settled' = settled
      /\ frame' = [frame EXCEPT ![h].at = "io_uring_queue_exit", ![h].caller = "free_queu"]
  BY DEF Signal, Frames, Top
<1>2. /\ UNCHANGED qvars /\ QTypeOK /\ QTypeOK' /\ (QInv => QInv') /\ ring' = ring /\ conns' = conns
      /\ first' = first /\ heap' = heap
  BY QueueSame DEF SignalInv, FrameTypes, Signal, Outside, qvars
<1>3. frame \in [Frames -> FrameRecs] /\ frame[m] \in FrameRecs /\ frame[h] \in FrameRecs
  BY <1>1 DEF SignalInv, FrameTypes
<1> PICK r : r = [frame[h] EXCEPT !.at = "io_uring_queue_exit", !.caller = "free_queu"]
  OBVIOUS
<1>4. r \in FrameRecs /\ r.at = "io_uring_queue_exit" /\ r.caller = "free_queu"
  BY <1>3 DEF FrameRecs, EndLines
<1>5. frame' = [frame EXCEPT ![h] = r]
  BY <1>1, <1>3 DEF FrameRecs
<1>6. frame'[h] = r /\ frame'[m] = frame[m] /\ frame' \in [Frames -> FrameRecs] /\ Top' = h
  BY <1>1, <1>3, <1>4, <1>5 DEF Top
<1>7. Shape(m)' /\ Shape(h)'
  BY <1>1, <1>4, <1>6 DEF SignalInv, FrameTypes, Shape, PushLines
<1>8. FrameTypes'
  BY <1>1, <1>2, <1>6, <1>7 DEF SignalInv, FrameTypes, Frames
<1>9. ~ CutShort /\ ~ Torn
  BY <1>1 DEF CutShort, Torn, SignalledAt
<1>10. LineOK(frame[m]) /\ Follows(frame[m]) /\ Shape(m)
  BY <1>1, <1>9 DEF SignalInv, FrameTypes
<1>11. ASSUME ~ Torn'
       PROVE  LineOK(r)'
  <2>1. frame[m].at \notin {"push:38", "pop:49", "pop:50"}
    BY <1>1, <1>4, <1>6, <1>11 DEF Torn, SignalledAt
  <2>2. frame[m].caller = "loop" \/ frame[m].at \in {"loop", "io_uring_queue_exit"}
    BY <1>1, <1>3, <1>4, <1>6, <1>11 DEF Torn, CutShort, SignalledAt, FrameRecs
  <2>3. ring = "open" /\ conns = "open"
    BY <1>10, <2>2 DEF LineOK, Closed, Shape
  <2>4. QInv'
    BY <1>2, <1>10, <2>1 DEF LineOK
  <2> QED BY <1>2, <1>4, <2>3, <2>4 DEF LineOK, Closed, PushOK, PopOK
<1>12. ASSUME ~ CutShort'
       PROVE  Follows(r)'
  <2>1. frame[m].at \in {"loop", "io_uring_queue_exit"}
    BY <1>4, <1>6, <1>12 DEF CutShort, SignalledAt
  <2> QED BY <1>1, <1>2, <1>4, <1>10, <2>1 DEF Follows, qvars
<1>13. CleanExit'
  BY <1>1 DEF CleanExit
<1> QED BY <1>6, <1>8, <1>11, <1>12, <1>13 DEF SignalInv

LEMMA SignalInit == Init => SignalInv
<1> SUFFICES ASSUME Init PROVE SignalInv
  OBVIOUS
<1>1. QInv /\ QTypeOK
  BY QInitInv DEF Init, QInv
<1>2. /\ frame["main"].at = "loop" /\ frame["main"].caller = "loop" /\ frame["handler"].at = "none"
      /\ frame["handler"].caller = "loop"
      /\ frame \in [Frames -> FrameRecs]
  BY DEF Init, Frames, FrameRecs, Pointer
<1>3. Top = "main" /\ ~ Torn /\ ~ CutShort /\ end = "running" /\ ring = "open" /\ conns = "open"
  BY <1>2 DEF Init, Top, Torn, CutShort, SignalledAt
<1>4. FrameTypes
  BY <1>1, <1>2 DEF FrameTypes, Shape, Frames, PushLines, EndLines
<1>5. LineOK(frame["main"])
  BY <1>1, <1>2, <1>3 DEF LineOK, Closed, PushOK, PopOK
<1>6. Follows(frame["main"])
  BY <1>2 DEF Follows, Init, Queue
<1> QED BY <1>3, <1>4, <1>5, <1>6 DEF SignalInv, CleanExit

LEMMA SignalStep ==
  ASSUME SignalInv, [Next]_vars
  PROVE  SignalInv'
<1>1. ASSUME NEW f \in Frames, Step(f)
      PROVE  SignalInv'
  BY <1>1, TestKeeps, CallocKeeps, LinkKeeps, LastKeeps, FirstKeeps, HeadKeeps, FreeKeeps,
     PopFirstKeeps, PopLastKeeps, ClosingKeeps DEF Step
<1>2. CASE UNCHANGED vars
  <2>1. UNCHANGED qvars /\ frame' = frame /\ ring' = ring /\ conns' = conns /\ end' = end /\ settled' = settled
        /\ first' = first /\ last' = last /\ next' = next /\ heap' = heap
    BY <1>2 DEF vars, qvars
  <2>2. QTypeOK' /\ (QInv => QInv') /\ (Linked => Linked') /\ \A x : Unlinked(x) => Unlinked(x)'
    BY <2>1, QueueSame DEF SignalInv, FrameTypes
  <2>3. FrameTypes' /\ (Torn <=> Torn') /\ (CutShort <=> CutShort') /\ Top' = Top
    BY <2>1, <2>2 DEF SignalInv, FrameTypes, Shape, Torn, CutShort, SignalledAt, Top
  <2> PICK r : r = frame[Top]
    OBVIOUS
  <2>4. LineOK(r) => LineOK(r)'
    BY <2>1, <2>2 DEF LineOK, Closed, PushOK, PopOK
  <2>5. Follows(r) => Follows(r)'
    BY <2>1 DEF Follows
  <2>6. CleanExit'
    BY <2>1, <2>3 DEF SignalInv, CleanExit
  <2>7. frame'[Top'] = r
    BY <2>1, <2>3
  <2> QED BY <2>1, <2>3, <2>4, <2>5, <2>6, <2>7 DEF SignalInv
<1> QED BY <1>1, <1>2, LoopKeeps, SignalKeeps DEF Next

\* Every statement, wherever it is interrupted, keeps the queue as its line
\* expects it.
THEOREM SignalInvariant == Spec => []SignalInv
  BY SignalInit, SignalStep, PTL DEF Spec

\* A signal that finds the program at no torn statement ends it with 0: nothing
\* is used after it was freed or closed, UNREACHABLE is not reached and no cell
\* is left in the list (server.c:27-61 under sigint_handler); for any requests.
THEOREM SignalsEndCleanly == Spec => []CleanExit
<1>1. SignalInv => CleanExit
  BY DEF SignalInv
<1> QED BY <1>1, SignalInvariant, PTL
-----------------------------------------------------------------------------
(***************************************************************************)
(* The statements implement the calls: a call takes effect when it returns.*)
(***************************************************************************)
LEMMA ReturnSettles ==
  ASSUME NEW f, NEW ret, Return(f, ret)
  PROVE  \/ settled' = settled
         \/ ~ CutShort /\ settled' = [first |-> first', last |-> last', next |-> next', heap |-> heap']
  BY DEF Return

LEMMA PushTakesEffect ==
  ASSUME SignalInv, NEW f \in Frames, push_first(f), settled' # settled
  PROVE  \E x \in Items : Calls!queu_push(x)
<1>1. Top = f /\ end = "running" /\ frame[f].at = "push:38" /\ Return(f, frame[f].ret)
  BY BeforeTop DEF push_first
<1>2. ~ CutShort /\ settled' = [first |-> first', last |-> last', next |-> next', heap |-> heap']
  BY <1>1, ReturnSettles
<1>3. Follows(frame[f])
  BY <1>1, <1>2 DEF SignalInv
<1> PICK x \in Items : x = frame[f].ret
  BY <1>1 DEF SignalInv, FrameTypes, Shape, PushLines
<1>4. /\ first' = IF first = NULL THEN x ELSE first
      /\ last' = last /\ next' = next /\ heap' = heap
  BY DEF push_first
<1>5. /\ first = settled.first /\ last = x /\ heap = settled.heap \cup {x} /\ x \notin settled.heap
      /\ next = IF settled.last = NULL THEN [settled.next EXCEPT ![x] = NULL]
                ELSE [settled.next EXCEPT ![x] = NULL, ![settled.last] = x]
  BY <1>1, <1>3 DEF Follows
<1>6. Calls!queu_push(x)
  BY <1>2, <1>4, <1>5 DEF Calls!queu_push
<1> QED BY <1>6

LEMMA PopTakesEffect ==
  ASSUME SignalInv, NEW f \in Frames, pop_last(f), settled' # settled
  PROVE  \E x \in Items : Calls!queu_pop(x)
<1>1. Top = f /\ end = "running" /\ frame[f].at = "pop:50"
  BY BeforeTop DEF pop_last
<1>2. (first = NULL \/ Live(first)) /\ Return(f, frame[f].ret)
  BY DEF pop_last, End
<1>3. ~ CutShort /\ settled' = [first |-> first', last |-> last', next |-> next', heap |-> heap']
  BY <1>2, ReturnSettles
<1>4. Follows(frame[f]) /\ LineOK(frame[f])
  BY <1>1, <1>3, TornIsCut DEF SignalInv
<1> PICK x \in Items : x = frame[f].ret
  BY <1>1, <1>4 DEF LineOK, PopOK
<1>5. /\ first' = first /\ next' = next /\ heap' = heap
      /\ last' = IF first = NULL THEN NULL ELSE next[first]
  BY <1>2 DEF pop_last
<1>6. /\ first = settled.next[x] /\ last = settled.last /\ heap = settled.heap \ {x}
      /\ next = settled.next /\ x = settled.first
  BY <1>1, <1>4 DEF Follows
<1>7. Calls!queu_pop(x)
  BY <1>3, <1>5, <1>6, NullAssumption DEF Calls!queu_pop
<1> QED BY <1>7

\* A pop that finds nothing leaves the queue as it was.
LEMMA EmptyPop ==
  ASSUME SignalInv, NEW f \in Frames, pop_head(f), settled' # settled
  PROVE  UNCHANGED Calls!qvars
<1>1. Top = f /\ end = "running" /\ frame[f].at = "pop:44"
  BY BeforeTop DEF pop_head
<1>2. UNCHANGED qvars /\ Return(f, NULL)
  BY DEF pop_head, End
<1>3. ~ CutShort /\ settled' = [first |-> first', last |-> last', next |-> next', heap |-> heap']
  BY <1>2, ReturnSettles
<1>4. first = settled.first /\ last = settled.last /\ next = settled.next /\ heap = settled.heap
  BY <1>1, <1>3 DEF SignalInv, Follows
<1> QED BY <1>2, <1>3, <1>4 DEF qvars, Calls!qvars

LEMMA CallStep ==
  ASSUME SignalInv, [Next]_vars
  PROVE  [Calls!QNext]_(Calls!qvars)
<1>1. CASE settled' = settled
  BY <1>1 DEF Calls!qvars
<1>2. CASE settled' # settled
  <2>1. PICK f \in Frames : push_first(f) \/ pop_head(f) \/ pop_last(f)
    BY <1>2 DEF Next, Step, server_loop, Signal, vars, unreachable_test, push_calloc, push_link, push_last,
       pop_free, pop_first, io_uring_queue_exit, deinit_dbconns_arena, exit, Go, End
  <2> QED BY <1>2, <2>1, PushTakesEffect, PopTakesEffect, EmptyPop DEF Calls!QNext
<1> QED BY <1>1, <1>2

\* Until a call is cut short, the statements of queu_push and queu_pop are the
\* calls that RequestQueue takes for one step each, also the pops of free_queu
\* when the handler runs between two calls; for any requests.  Once the signal
\* has interrupted a call nothing more is said: settled stays as it is.
THEOREM StatementsAreCalls == Spec => StatementsImplementCalls
<1>1. Init => Calls!QInit
  BY DEF Init, Queue, QInit, Calls!QInit
<1> QED BY <1>1, SignalInvariant, CallStep, PTL DEF Spec, StatementsImplementCalls, Calls!QSpec

\* What is proved of the calls, of the queue as the last of them left it.
CallProofs == INSTANCE RequestQueueProofs WITH
  first <- settled.first, last <- settled.last, next <- settled.next, heap <- settled.heap

\* Until a call is cut short, requests leave in the order they came, none twice,
\* and the head is never given up: the statements of the two functions implement
\* the lossy queue, for any requests.
THEOREM StatementsAreLossyFifo == Spec => StatementsImplementLossyFifo
<1>1. CallProofs!QSpec => CallProofs!ImplementsLossyFifo
  BY NullAssumption, CallProofs!ListIsLossyFifo
<1>2. CallProofs!QInit <=> Calls!QInit
  BY DEF CallProofs!QInit, Calls!QInit
<1>3. [CallProofs!QNext]_CallProofs!qvars <=> [Calls!QNext]_Calls!qvars
  BY DEF CallProofs!QNext, Calls!QNext, CallProofs!qvars, Calls!qvars, CallProofs!queu_push,
         Calls!queu_push, CallProofs!queu_pop, Calls!queu_pop
<1>4. CallProofs!Contents = Calls!Contents
  BY DEF CallProofs!Contents, Calls!Contents, CallProofs!Walk, Calls!Walk, CallProofs!IsWalk,
         Calls!IsWalk, CallProofs!Met, Calls!Met, CallProofs!Following, Calls!Following,
         CallProofs!Cardinality, Calls!Cardinality
<1>5. CallProofs!Fifo!Init <=> Calls!Fifo!Init
  BY <1>4 DEF CallProofs!Fifo!Init, Calls!Fifo!Init
<1>6. (CallProofs!Contents = Calls!Contents)'
  BY <1>4, PTL
<1>7. [CallProofs!Fifo!Next]_CallProofs!Contents <=> [Calls!Fifo!Next]_Calls!Contents
  BY <1>4, <1>6 DEF CallProofs!Fifo!Next, Calls!Fifo!Next, CallProofs!Fifo!Pop, Calls!Fifo!Pop,
         CallProofs!Fifo!Push, Calls!Fifo!Push, CallProofs!Fifo!PushAfter, Calls!Fifo!PushAfter,
         CallProofs!Fifo!ToSet, Calls!Fifo!ToSet
<1> QED BY <1>1, <1>2, <1>3, <1>5, <1>7, StatementsAreCalls, PTL
        DEF StatementsImplementCalls, StatementsImplementLossyFifo, CallProofs!QSpec, Calls!QSpec,
            CallProofs!ImplementsLossyFifo, Calls!ImplementsLossyFifo,
            CallProofs!Fifo!Spec, Calls!Fifo!Spec
=============================================================================
