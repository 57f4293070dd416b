---------------------------- MODULE QueueSignal ----------------------------
(***************************************************************************)
(* The queue of server.c statement by statement, and the handler of SIGINT *)
(* that runs on top of the statement the signal found the program at.      *)
(*                                                                         *)
(* A frame is a call in progress: the line it stands before and its local  *)
(* variables.  The handler never returns to what it interrupted.  server() *)
(* calls it as a function too, when the loop ends.  The signal may arrive  *)
(* before any statement.  Statements take effect in program order, which is*)
(* one of the orders a build can give them.                                *)
(***************************************************************************)
EXTENDS RequestQueue

VARIABLES
  frame,    \* for main and handler: [at, caller, ret, new_first]
  ring,     \* io_uring: "open" or "closed"
  conns,    \* the connections of DBCONNS_POOL: "open" or "closed"
  end,      \* "running", or how the program ended
  settled   \* history: the queue when the last call on it returned, until a
            \* call is cut short

vars == <<first, last, next, heap, frame, ring, conns, end, settled>>

Frames == {"main", "handler"}
Queue == [first |-> first, last |-> last, next |-> next, heap |-> heap]

Init ==
  /\ QInit
  /\ frame = [f \in Frames |-> [at |-> IF f = "main" THEN "loop" ELSE "none", caller |-> "loop",
                                ret |-> NULL, new_first |-> NULL]]
  /\ ring = "open" /\ conns = "open"
  /\ end = "running"
  /\ settled = Queue

\* The frame on top stands before that line.
Before(f, line) ==
  /\ end = "running"
  /\ frame[f].at = line
  /\ f = "main" => frame["handler"].at = "none"

Go(f, line) == frame' = [frame EXCEPT ![f].at = line] /\ UNCHANGED <<end, settled>>

\* The signal has come, and found main there.
SignalledAt(lines) == frame["handler"].at # "none" /\ frame["main"].at \in lines
CutShort == frame["handler"].at # "none" /\ ~ SignalledAt({"loop", "io_uring_queue_exit"})

\* queu_push and queu_pop return to the loop, or to free_queu, which pops until
\* it gets NULL.
Return(f, ret) ==
  /\ frame' = [frame EXCEPT ![f].at = IF frame[f].caller = "loop" THEN "loop"
                                      ELSE IF ret = NULL THEN "exit" ELSE "pop:42"]
  /\ settled' = IF CutShort THEN settled
                ELSE [first |-> first', last |-> last', next |-> next', heap |-> heap']
  /\ UNCHANGED end

End(how) == end' = how /\ UNCHANGED <<frame, settled>>

\* A read, a write or a free of a cell: undefined once the cell was freed.
Live(cell) == cell \in heap
Outside == UNCHANGED <<ring, conns>>
-----------------------------------------------------------------------------
\* Lines 29 and 42.
unreachable_test(f) ==
  \E call \in {"push", "pop"} :
    /\ Before(f, IF call = "push" THEN "push:29" ELSE "pop:42")
    /\ IF first = NULL /\ last # NULL THEN End("UNREACHABLE")
       ELSE Go(f, IF call = "push" THEN "push:31" ELSE "pop:44")
    /\ UNCHANGED qvars /\ Outside

push_calloc(f) ==
  /\ Before(f, "push:31")
  /\ \/ End("MEMERROR") /\ UNCHANGED qvars
     \/ /\ heap' = heap \cup {frame[f].ret}
        /\ next' = [next EXCEPT ![frame[f].ret] = NULL]
        /\ Go(f, "push:35")
        /\ UNCHANGED <<first, last>>
  /\ Outside

push_link(f) ==
  /\ Before(f, "push:35")
  /\ IF last # NULL /\ ~ Live(last) THEN End("undefined") ELSE Go(f, "push:37")
  /\ next' = IF last # NULL /\ Live(last) THEN [next EXCEPT ![last] = frame[f].ret] ELSE next
  /\ UNCHANGED <<first, last, heap>> /\ Outside

push_last(f) ==
  /\ Before(f, "push:37")
  /\ last' = frame[f].ret
  /\ Go(f, "push:38")
  /\ UNCHANGED <<first, next, heap>> /\ Outside

\* Mutant of push_first: the new cell becomes the head.
push_first_Always(f) ==
  /\ Before(f, "push:38")
  /\ first' = frame[f].ret
  /\ UNCHANGED <<last, next, heap>>
  /\ Return(f, frame[f].ret) /\ Outside

push_first(f) ==
  /\ Before(f, "push:38")
  /\ first' = IF first = NULL THEN frame[f].ret ELSE first
  /\ UNCHANGED <<last, next, heap>>
  /\ Return(f, frame[f].ret) /\ Outside

\* Lines 44 to 47: what is read from the head.
pop_head(f) ==
  /\ Before(f, "pop:44")
  /\ UNCHANGED qvars /\ Outside
  /\ IF first = NULL THEN Return(f, NULL)
     ELSE IF ~ Live(first) THEN End("undefined")
     ELSE /\ frame' = [frame EXCEPT ![f].at = "pop:48", ![f].ret = first,
                                    ![f].new_first = next[first]]
          /\ UNCHANGED <<end, settled>>

pop_free(f) ==
  /\ Before(f, "pop:48")
  /\ IF Live(first) THEN Go(f, "pop:49") ELSE End("undefined")
  /\ heap' = heap \ {first}
  /\ UNCHANGED <<first, last, next>> /\ Outside

pop_first(f) ==
  /\ Before(f, "pop:49")
  /\ first' = frame[f].new_first
  /\ Go(f, "pop:50")
  /\ UNCHANGED <<last, next, heap>> /\ Outside

\* Mutant of pop_last: last is not reset when the list becomes empty.
pop_last_NoReset(f) ==
  /\ Before(f, "pop:50")
  /\ last' = IF first = NULL THEN last ELSE next[first]
  /\ UNCHANGED <<first, next, heap>>
  /\ Return(f, frame[f].ret) /\ Outside

\* Mutant of pop_last: last moves to the head that is left.
pop_last_Head(f) ==
  /\ Before(f, "pop:50")
  /\ last' = first
  /\ UNCHANGED <<first, next, heap>>
  /\ Return(f, frame[f].ret) /\ Outside

pop_last(f) ==
  /\ Before(f, "pop:50")
  /\ last' = CASE first = NULL -> NULL
               [] first # NULL /\ Live(first) -> next[first]
               [] OTHER -> last
  /\ UNCHANGED <<first, next, heap>> /\ Outside
  /\ IF first # NULL /\ ~ Live(first) THEN End("undefined") ELSE Return(f, frame[f].ret)
-----------------------------------------------------------------------------
\* The loop pushes a request that is not in the queue, pops one, or ends and
\* calls sigint_handler.
server_loop ==
  /\ Before("main", "loop")
  /\ \/ \E x \in Items \ heap :
          frame' = [frame EXCEPT !["main"].at = "push:29", !["main"].ret = x]
     \/ frame' = [frame EXCEPT !["main"].at = "pop:42"]
     \/ frame' = [frame EXCEPT !["main"].at = "io_uring_queue_exit", !["main"].caller = "free_queu"]
  /\ UNCHANGED <<end, settled>> /\ UNCHANGED qvars /\ Outside

\* SIGINT.  A second one waits for the handler to return.
Signal ==
  /\ end = "running" /\ frame["handler"].at = "none"
  /\ frame' = [frame EXCEPT !["handler"].at = "io_uring_queue_exit", !["handler"].caller = "free_queu"]
  /\ UNCHANGED <<end, settled>> /\ UNCHANGED qvars /\ Outside

\* sigint_handler: the ring, the connections, the queue, exit.
io_uring_queue_exit(f) ==
  /\ Before(f, "io_uring_queue_exit")
  /\ IF ring = "closed" THEN End("undefined") ELSE Go(f, "deinit_dbconns_arena")
  /\ ring' = "closed"
  /\ UNCHANGED conns /\ UNCHANGED qvars

\* Mutant of deinit_dbconns_arena: the queue is left as it is.
deinit_dbconns_arena_NoPops(f) ==
  /\ Before(f, "deinit_dbconns_arena")
  /\ IF conns = "closed" THEN End("undefined") ELSE Go(f, "exit")
  /\ conns' = "closed"
  /\ UNCHANGED ring /\ UNCHANGED qvars

deinit_dbconns_arena(f) ==
  /\ Before(f, "deinit_dbconns_arena")
  /\ IF conns = "closed" THEN End("undefined") ELSE Go(f, "pop:42")
  /\ conns' = "closed"
  /\ UNCHANGED ring /\ UNCHANGED qvars

exit(f) ==
  /\ Before(f, "exit")
  /\ End("exit 0")
  /\ UNCHANGED qvars /\ Outside

Step(f) ==
  \/ unreachable_test(f)
  \/ push_calloc(f) \/ push_link(f) \/ push_last(f) \/ push_first(f)
  \/ pop_head(f) \/ pop_free(f) \/ pop_first(f) \/ pop_last(f)
  \/ io_uring_queue_exit(f) \/ deinit_dbconns_arena(f) \/ exit(f)

Next == (\E f \in Frames : Step(f)) \/ server_loop \/ Signal

\* A call that has begun goes on; the loop need not.
Spec == Init /\ [][Next]_vars /\ \A f \in Frames : WF_vars(Step(f))
-----------------------------------------------------------------------------
\* As long as no call is cut short, the statements of queu_push and queu_pop are
\* the calls RequestQueue takes for one step each: those of the loop, and the
\* pops of free_queu when the handler runs between two calls, also from a queue
\* that has lost entries.  Of the pops on top of an interrupted call it says
\* nothing: settled does not change any more.
Calls == INSTANCE RequestQueue WITH
  first <- settled.first, last <- settled.last, next <- settled.next, heap <- settled.heap

StatementsImplementCalls == Calls!QSpec

\* Requests leave in the order they came and never twice, and the head is
\* never dropped, whatever mix of pushes and pops is performed until a call is
\* cut short: the statements implement the lossy queue of LossyFifo.
StatementsImplementLossyFifo == Calls!ImplementsLossyFifo

\* Where the handler finds what cannot be understood: last was set and not yet
\* first; first was freed; first was set and not yet last; or what the handler
\* has to close is closed, since server() was calling it already.
Torn ==
  \/ SignalledAt({"push:38", "pop:49", "pop:50"})
  \/ CutShort /\ frame["main"].caller = "free_queu"

\* The program ends with 0, nothing used after it was freed or closed, the
\* UNREACHABLE of server.c:30 and server.c:43 not reached, and no cell that
\* could be reached left, wherever else the signal finds it.
CleanExit ==
  ~ Torn =>
    /\ end \in {"running", "exit 0", "MEMERROR"}
    /\ end = "exit 0" => first = NULL /\ last = NULL /\ ring = "closed" /\ conns = "closed"

\* The handler gets to the end, whatever is in the queue: free_queu meets no
\* cycle.
SignalEnds == (\E f \in Frames : frame[f].caller = "free_queu") ~> (end = "exit 0" \/ Torn)
=============================================================================
