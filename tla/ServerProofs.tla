---------------------------- MODULE ServerProofs ----------------------------
(***************************************************************************)
(* Counting the datagrams and threads of a worker: the lemmas that every   *)
(* proof about server.py uses, in whatever surroundings.                   *)
(***************************************************************************)
EXTENDS Server, FiniteSetTheorems, TLAPS

(* Finite sets of jobs and threads. *)

LEMMA JobSetFinite ==
  ASSUME NEW S \in SUBSET Request
  PROVE  IsFiniteSet(S) /\ Cardinality(S) \in Nat
BY RequestsAssumption, FS_Subset, FS_CardinalityType

LEMMA AddJob ==
  ASSUME NEW S \in SUBSET Request, NEW r \in Request, r \notin S
  PROVE  Cardinality(S \cup {r}) = Cardinality(S) + 1
BY JobSetFinite, FS_AddElement

LEMMA RemoveJob ==
  ASSUME NEW S \in SUBSET Request, NEW r \in S
  PROVE  Cardinality(S \ {r}) = Cardinality(S) - 1
BY JobSetFinite, FS_RemoveElement

LEMMA ThreadSets ==
  ASSUME NEW s \in Server, NEW P
  PROVE  /\ ThreadsAt(s, P) \in SUBSET Request
         /\ Cardinality(ThreadsAt(s, P)) \in Nat
BY JobSetFinite DEF ThreadsAt

-----------------------------------------------------------------------------
(* The threads of a worker. *)

\* A thread moves from one point to another; the others stay where they are.
LEMMA GotoCounts ==
  ASSUME thread \in [Server -> [Request -> ThreadPc]],
         NEW s \in Server, NEW t \in Request, NEW from, NEW to, NEW P,
         Goto(s, t, from, to), NEW u \in Server
  PROVE  Cardinality(ThreadsAt(u, P)') = Cardinality(ThreadsAt(u, P))
           + (IF u = s /\ to \in P THEN 1 ELSE 0)
           - (IF u = s /\ from \in P THEN 1 ELSE 0)
<1>1. /\ ThreadsAt(s, P)' = IF to \in P THEN ThreadsAt(s, P) \cup {t}
                            ELSE ThreadsAt(s, P) \ {t}
      /\ t \in ThreadsAt(s, P) <=> from \in P
      /\ u # s => ThreadsAt(u, P)' = ThreadsAt(u, P)
  BY DEF Goto, ThreadsAt
<1>2. ThreadsAt(u, P) \in SUBSET Request /\ Cardinality(ThreadsAt(u, P)) \in Nat
  BY ThreadSets
<1>3. CASE ThreadsAt(u, P)' = ThreadsAt(u, P)
  <2>1. u = s => (to \in P <=> from \in P)
    BY <1>1, <1>3
  <2>2. Cardinality(ThreadsAt(u, P)') = Cardinality(ThreadsAt(u, P))
    BY <1>3
  <2> QED
    BY <1>2, <2>1, <2>2
<1>4. CASE u = s /\ to \in P /\ from \notin P
  BY <1>1, <1>2, <1>4, AddJob
<1>5. CASE u = s /\ to \notin P /\ from \in P
  BY <1>1, <1>2, <1>5, RemoveJob
<1> QED
  BY <1>1, <1>3, <1>4, <1>5

\* The two counts that matter: the threads charged to the worker and the
\* threads n_threads counts.
LEMMA GotoLive ==
  ASSUME thread \in [Server -> [Request -> ThreadPc]],
         NEW s \in Server, NEW t \in Request, NEW from, NEW to,
         Goto(s, t, from, to)
  PROVE  /\ \A u \in Server :
              Cardinality(ThreadsAt(u, Live)') = Cardinality(ThreadsAt(u, Live))
                + (IF u = s /\ to \in Live THEN 1 ELSE 0)
                - (IF u = s /\ from \in Live THEN 1 ELSE 0)
         /\ \A u \in Server :
              Cardinality(ThreadsAt(u, Counted)')
                = Cardinality(ThreadsAt(u, Counted))
                + (IF u = s /\ to \in Counted THEN 1 ELSE 0)
                - (IF u = s /\ from \in Counted THEN 1 ELSE 0)
<1>1. ASSUME NEW u \in Server
      PROVE  Cardinality(ThreadsAt(u, Live)') = Cardinality(ThreadsAt(u, Live))
                + (IF u = s /\ to \in Live THEN 1 ELSE 0)
                - (IF u = s /\ from \in Live THEN 1 ELSE 0)
  BY GotoCounts
<1>2. ASSUME NEW u \in Server
      PROVE  Cardinality(ThreadsAt(u, Counted)')
                = Cardinality(ThreadsAt(u, Counted))
                + (IF u = s /\ to \in Counted THEN 1 ELSE 0)
                - (IF u = s /\ from \in Counted THEN 1 ELSE 0)
  BY GotoCounts
<1> QED
  BY <1>1, <1>2
=============================================================================
