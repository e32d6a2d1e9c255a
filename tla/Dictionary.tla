----------------------------- MODULE Dictionary -----------------------------
(***************************************************************************)
(* The hash table of lib/telemetry/src/dictionnary.c: chains of entries,   *)
(* one per key, each with a pointer for every type.  install and lookup    *)
(* are called by several tasks without a lock, so every access to a chain  *)
(* is a step.  An entry is only ever prepended; none is removed.           *)
(*                                                                         *)
(* Strings are keys, the hash is the constant Bucket, memory is the finite *)
(* set Nodes.  A pointer is the pair of key and type it was attached for,  *)
(* so an entry holds the set of types whose pointer is not NULL.           *)
(***************************************************************************)
EXTENDS Integers, FiniteSets

CONSTANTS
  Tasks,    \* the tasks that call install or lookup
  Keys,     \* topics
  Types,    \* ptr_type
  Buckets,  \* 0 .. HASHSIZE-1
  Bucket,   \* Bucket[k]: hash(k)
  Nodes,    \* what malloc can return
  NULL

ASSUME DictionaryAssumption ==
  /\ Bucket \in [Keys -> Buckets]
  /\ NULL \notin Nodes \cup Keys
  /\ IsFiniteSet(Nodes)

VARIABLES
  hashtab,        \* first entry of every chain
  next, key, ptr, \* the fields of the entries; key is NULL in free memory
  pc, np,         \* per task: control point and local variable np
  job             \* per task: the call it is in, with its arguments

memory == <<hashtab, next, key, ptr>>
locals == <<pc, np, job>>
dvars  == <<memory, locals>>

Ref  == Nodes \cup {NULL}
Idle == [op |-> "none", key |-> NULL, type |-> NULL]
Jobs == [op : {"install", "lookup"}, key : Keys, type : Types] \cup {Idle}

\* init_table, and nobody has called anything.
DInit ==
  /\ hashtab = [b \in Buckets |-> NULL]
  /\ next = [n \in Nodes |-> NULL]
  /\ key = [n \in Nodes |-> NULL]
  /\ ptr = [n \in Nodes |-> {}]
  /\ pc = [t \in Tasks |-> "idle"]
  /\ np = [t \in Tasks |-> NULL]
  /\ job = [t \in Tasks |-> Idle]

Key(t) == job[t].key
Slot(t) == Bucket[Key(t)]
Goto(t, l) == pc' = [pc EXCEPT ![t] = l]

\* A call begins: hashtab[hash(key)] is still to be loaded.
Begin(t, op, k, ty) ==
  /\ pc[t] = "idle"
  /\ job' = [job EXCEPT ![t] = [op |-> op, key |-> k, type |-> ty]]
  /\ Goto(t, "head")
  /\ UNCHANGED <<memory, np>>

LookupHead(t) ==
  /\ pc[t] = "head"
  /\ np' = [np EXCEPT ![t] = hashtab[Slot(t)]]
  /\ Goto(t, "walk")
  /\ UNCHANGED <<memory, job>>

\* A lookup that compares the first entry of the chain only.
LookupNextMutant(t) ==
  /\ pc[t] = "walk" /\ np[t] # NULL /\ key[np[t]] # Key(t)
  /\ np' = [np EXCEPT ![t] = NULL]
  /\ UNCHANGED <<memory, pc, job>>

\* strcmp(key, np->key) != 0: np = np->next
LookupNext(t) ==
  /\ pc[t] = "walk" /\ np[t] # NULL /\ key[np[t]] # Key(t)
  /\ np' = [np EXCEPT ![t] = next[np[t]]]
  /\ UNCHANGED <<memory, pc, job>>

\* install without the test for NULL: nothing is allocated.
LookupReturnMutant(t) ==
  /\ pc[t] = "walk" /\ (np[t] # NULL => key[np[t]] = Key(t))
  /\ Goto(t, IF job[t].op = "lookup" THEN "found" ELSE "set")
  /\ UNCHANGED <<memory, np, job>>

\* lookup without strcmp: the first entry of the chain will do.
LookupAnyMutant(t) ==
  /\ pc[t] = "walk" /\ (job[t].op = "install" /\ np[t] # NULL => key[np[t]] = Key(t))
  /\ \/ job[t].op = "lookup" /\ Goto(t, "found")
     \/ job[t].op = "install" /\ np[t] = NULL /\ Goto(t, "alloc")
     \/ job[t].op = "install" /\ np[t] # NULL /\ Goto(t, "set")
  /\ UNCHANGED <<memory, np, job>>

\* lookup returns np: the entry, or NULL at the end of the chain.
LookupReturn(t) ==
  /\ pc[t] = "walk" /\ (np[t] # NULL => key[np[t]] = Key(t))
  /\ \/ job[t].op = "lookup" /\ Goto(t, "found")
     \/ job[t].op = "install" /\ np[t] = NULL /\ Goto(t, "alloc")
     \/ job[t].op = "install" /\ np[t] # NULL /\ Goto(t, "set")
  /\ UNCHANGED <<memory, np, job>>

\* malloc, strdup and init_entry; np->next still holds what was there.
Allocate(t) ==
  /\ pc[t] = "alloc"
  /\ \E n \in Nodes, garbage \in Ref :
       /\ key[n] = NULL
       /\ key' = [key EXCEPT ![n] = Key(t)]
       /\ ptr' = [ptr EXCEPT ![n] = {}]
       /\ next' = [next EXCEPT ![n] = garbage]
       /\ np' = [np EXCEPT ![t] = n]
  /\ Goto(t, "next")
  /\ UNCHANGED <<hashtab, job>>

Finish(t) ==
  /\ Goto(t, "idle")
  /\ np' = [np EXCEPT ![t] = NULL] /\ job' = [job EXCEPT ![t] = Idle]

\* malloc or strdup fails, what was allocated is freed, install returns NULL.
AllocateFails(t) ==
  /\ pc[t] = "alloc"
  /\ Finish(t)
  /\ UNCHANGED memory

\* The entry linked before its next pointer is set.
SetNextMutant(t) ==
  /\ pc[t] = "next"
  /\ hashtab' = [hashtab EXCEPT ![Slot(t)] = np[t]]
  /\ Goto(t, "set")
  /\ UNCHANGED <<next, key, ptr, np, job>>

\* np->next = hashtab[hashval]
SetNext(t) ==
  /\ pc[t] = "next"
  /\ next' = [next EXCEPT ![np[t]] = hashtab[Slot(t)]]
  /\ Goto(t, "link")
  /\ UNCHANGED <<hashtab, key, ptr, np, job>>

\* hashtab[hashval] = np
Link(t) ==
  /\ pc[t] = "link"
  /\ hashtab' = [hashtab EXCEPT ![Slot(t)] = np[t]]
  /\ Goto(t, "set")
  /\ UNCHANGED <<next, key, ptr, np, job>>

\* np->ptr_<type> = ptr, and install returns.
SetPointer(t) ==
  /\ pc[t] = "set"
  /\ ptr' = [ptr EXCEPT ![np[t]] = @ \cup {job[t].type}]
  /\ Finish(t)
  /\ UNCHANGED <<hashtab, next, key>>

InCall(t) ==
  \/ LookupHead(t) \/ LookupNext(t) \/ LookupReturn(t)
  \/ Allocate(t) \/ AllocateFails(t)
  \/ SetNext(t) \/ Link(t) \/ SetPointer(t)

-----------------------------------------------------------------------------
\* The types; in particular np is not NULL when install writes through it.
DTypeOK ==
  /\ hashtab \in [Buckets -> Ref]
  /\ next \in [Nodes -> Ref]
  /\ key \in [Nodes -> Keys \cup {NULL}]
  /\ ptr \in [Nodes -> SUBSET Types]
  /\ pc \in [Tasks -> {"idle", "head", "walk", "found", "alloc", "next",
                       "link", "set"}]
  /\ np \in [Tasks -> Ref]
  /\ job \in [Tasks -> Jobs]
  /\ \A t \in Tasks : pc[t] \in {"next", "link", "set"} => np[t] # NULL

\* The first i entries a lookup in bucket b meets.
Chain(b) ==
  LET after[i \in 0..Cardinality(Nodes)] ==
        IF i = 0 THEN hashtab[b]
        ELSE IF after[i - 1] = NULL THEN NULL ELSE next[after[i - 1]]
  IN after

InChain(b) == {Chain(b)[i] : i \in 0..Cardinality(Nodes)} \ {NULL}

(* Whatever install is in the middle of, a lookup that starts now ends, and *)
(* every entry it meets is complete, in the right chain and the only one    *)
(* for its key.                                                             *)
ChainsSound ==
  \A b \in Buckets :
    /\ Chain(b)[Cardinality(Nodes)] = NULL
    /\ \A n \in InChain(b) : key[n] \in Keys /\ Bucket[key[n]] = b
    /\ \A m, n \in InChain(b) : key[m] = key[n] => m = n
=============================================================================
