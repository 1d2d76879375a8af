----------------------------- MODULE ThreadPool -----------------------------
(***************************************************************************)
(* The thread pool of the SAC server (mtserver/src/server.c).  The main    *)
(* thread accepts a connection while the list of connection threads is     *)
(* shorter than MAX_THREADS, starts a thread for it and only then puts the *)
(* thread's id in the list; a thread attends its connection, takes its id  *)
(* out of the list and ends.  The list's mutex guards the insertions and   *)
(* the removals but not the look at its size.                              *)
(***************************************************************************)
EXTENDS Integers, Sequences, FiniteSets

CONSTANTS
    MAX_THREADS,  \* length at which main stops accepting
    Tid,          \* thread ids; an id is reused once its thread has ended
    Conn,         \* connections of the clients
    NoTid         \* nobody holds the mutex; no thread has just been started

ASSUME PoolAssumption ==
    /\ MAX_THREADS \in Nat \ {0}
    /\ IsFiniteSet(Tid)
    /\ NoTid \notin Tid
    /\ Conn # {}

VARIABLES
    main,    \* main thread: "check" the size, "accept", "add" to the list
    cur,     \* thread main has started and not yet put in the list
    list,    \* connection_threads
    mutex,   \* thread that holds mutex_connection_threads
    thread,  \* "none", "attend", "scan" (the loop over the list), "detach"
    num,     \* threadNum, the loop's counter
    sock,    \* connection a thread attends
    conn     \* "idle", "pending" at the listening socket, "open", "closed"

vars == <<main, cur, list, mutex, thread, num, sock, conn>>

-----------------------------------------------------------------------------
(***************************************************************************)
(* External: clients and the listening socket.                             *)
(***************************************************************************)
Connect(c) ==
    /\ conn[c] \in {"idle", "closed"}
    /\ conn' = [conn EXCEPT ![c] = "pending"]
    /\ UNCHANGED <<main, cur, list, mutex, thread, num, sock>>

-----------------------------------------------------------------------------
(***************************************************************************)
(* The main thread, server_init.                                           *)
(***************************************************************************)

\* Mutant: one connection too many.
MutCheckOneMore ==
    /\ main = "check"
    /\ main' = IF Len(list) <= MAX_THREADS THEN "accept" ELSE "check"
    /\ UNCHANGED <<cur, list, mutex, thread, num, sock, conn>>

\* list_size(connection_threads) < MAX_THREADS, read without the mutex;
\* main spins while it is not.
CheckSize ==
    /\ main = "check"
    /\ main' = IF Len(list) < MAX_THREADS THEN "accept" ELSE "check"
    /\ UNCHANGED <<cur, list, mutex, thread, num, sock, conn>>

\* accept_connection, then pthread_create.
AcceptConnection(c, t) ==
    /\ main = "accept"
    /\ conn[c] = "pending"
    /\ thread[t] = "none"
    /\ conn' = [conn EXCEPT ![c] = "open"]
    /\ sock' = [sock EXCEPT ![t] = c]
    /\ thread' = [thread EXCEPT ![t] = "attend"]
    /\ cur' = t
    /\ main' = "add"
    /\ UNCHANGED <<list, mutex, num>>

\* list_add inside its critical section.
ListAdd ==
    /\ main = "add"
    /\ mutex = NoTid
    /\ list' = Append(list, cur)
    /\ cur' = NoTid
    /\ main' = "check"
    /\ UNCHANGED <<mutex, thread, num, sock, conn>>

-----------------------------------------------------------------------------
(***************************************************************************)
(* A connection thread: attend_connection and its last call,               *)
(* remove_thread_from_actual_threads.                                      *)
(***************************************************************************)

\* The request is received, executed and answered, and the socket closed.
AttendConnection(t) ==
    /\ thread[t] = "attend"
    /\ conn' = [conn EXCEPT ![sock[t]] = "closed"]
    /\ thread' = [thread EXCEPT ![t] = "leave"]
    /\ UNCHANGED <<main, cur, list, mutex, num, sock>>

LockList(t) ==
    /\ thread[t] = "leave"
    /\ mutex = NoTid
    /\ mutex' = t
    /\ num' = [num EXCEPT ![t] = 0]
    /\ thread' = [thread EXCEPT ![t] = "scan"]
    /\ UNCHANGED <<main, cur, list, sock, conn>>

\* list_get: the element, or NULL past the end.
ListGet(i) == IF i < Len(list) THEN list[i + 1] ELSE NoTid

\* Mutant: the element after the one to remove goes.
MutRemoveNext(i) == SubSeq(list, 1, i + 1) \o SubSeq(list, i + 3, Len(list))

\* list_remove: the elements behind the removed one move up.
ListRemove(i) == SubSeq(list, 1, i) \o SubSeq(list, i + 2, Len(list))

\* Mutant: the loop runs up to MAX_THREADS inclusive.
MutScanOneMore(t) ==
    /\ thread[t] = "scan"
    /\ num[t] <= MAX_THREADS
    /\ list' = IF ListGet(num[t]) = t THEN ListRemove(num[t]) ELSE list
    /\ num' = [num EXCEPT ![t] = @ + 1]
    /\ UNCHANGED <<main, cur, mutex, thread, sock, conn>>

\* One turn of the loop.  After a removal the counter still advances, so the
\* element that moved up into the gap is not looked at.
ScanList(t) ==
    /\ thread[t] = "scan"
    /\ num[t] < MAX_THREADS
    /\ list' = IF ListGet(num[t]) = t THEN ListRemove(num[t]) ELSE list
    /\ num' = [num EXCEPT ![t] = @ + 1]
    /\ UNCHANGED <<main, cur, mutex, thread, sock, conn>>

\* Mutant: the mutex stays locked.
MutUnlockMissing(t) ==
    /\ thread[t] = "scan"
    /\ num[t] = MAX_THREADS
    /\ thread' = [thread EXCEPT ![t] = "detach"]
    /\ UNCHANGED <<main, cur, list, mutex, num, sock, conn>>

UnlockList(t) ==
    /\ thread[t] = "scan"
    /\ num[t] = MAX_THREADS
    /\ mutex' = NoTid
    /\ thread' = [thread EXCEPT ![t] = "detach"]
    /\ UNCHANGED <<main, cur, list, num, sock, conn>>

\* pthread_detach and the end of the thread, which frees its id.
Detach(t) ==
    /\ thread[t] = "detach"
    /\ thread' = [thread EXCEPT ![t] = "none"]
    /\ UNCHANGED <<main, cur, list, mutex, num, sock, conn>>

-----------------------------------------------------------------------------
Init ==
    /\ main = "check" /\ cur = NoTid
    /\ list = <<>> /\ mutex = NoTid
    /\ thread = [t \in Tid |-> "none"]
    /\ num = [t \in Tid |-> 0]
    /\ sock = [t \in Tid |-> CHOOSE c \in Conn : TRUE]
    /\ conn = [c \in Conn |-> "idle"]

MainStep == CheckSize \/ (\E c \in Conn, t \in Tid : AcceptConnection(c, t)) \/ ListAdd

ThreadStep(t) ==
    \/ AttendConnection(t)
    \/ LockList(t)
    \/ ScanList(t)
    \/ UnlockList(t)
    \/ Detach(t)

Next ==
    \/ \E c \in Conn : Connect(c)
    \/ MainStep
    \/ \E t \in Tid : ThreadStep(t)

\* The scheduler runs every thread that can run; a mutex that is free again
\* and again is given in the end to each thread that waits for it.  Clients
\* connect when they like.
Fairness ==
    /\ WF_vars(MainStep)
    /\ SF_vars(ListAdd)
    /\ \A t \in Tid : WF_vars(ThreadStep(t)) /\ SF_vars(LockList(t))

Spec     == Init /\ [][Next]_vars
FairSpec == Spec /\ Fairness

-----------------------------------------------------------------------------
\* Every variable keeps its type.
TypeOK ==
    /\ main \in {"check", "accept", "add"}
    /\ cur \in IF main = "add" THEN Tid ELSE {NoTid}
    /\ list \in Seq(Tid)
    /\ mutex \in Tid \cup {NoTid}
    /\ thread \in [Tid -> {"none", "attend", "leave", "scan", "detach"}]
    /\ num \in [Tid -> 0 .. MAX_THREADS]
    /\ sock \in [Tid -> Conn]
    /\ conn \in [Conn -> {"idle", "pending", "open", "closed"}]

Attending == {t \in Tid : thread[t] \in {"attend", "leave"}}

\* MAX_THREADS bounds the connections attended at once, although main looks
\* at the list without the mutex and registers a thread after it has started.
AtMostMaxThreads == Cardinality(Attending) <= MAX_THREADS

\* A thread that has not begun to leave the list is in it, or about to be put
\* in it; the list is never longer than MAX_THREADS.
Registered ==
    /\ \A t \in Attending : \/ \E i \in 1 .. Len(list) : list[i] = t
                            \/ main = "add" /\ cur = t
    /\ Len(list) <= MAX_THREADS
    /\ main \in {"accept", "add"} => Len(list) < MAX_THREADS

\* Every connection that is accepted is answered and its thread ends: no
\* thread is left waiting for the mutex.
ThreadsEnd == \A t \in Tid : thread[t] = "attend" ~> thread[t] = "none"

\* accept "espera si no hay conexiones pendientes": a connection that is
\* pending is accepted.
PendingIsAccepted == \A c \in Conn : conn[c] = "pending" ~> conn[c] = "open"
=============================================================================
