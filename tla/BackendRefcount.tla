--------------------------- MODULE BackendRefcount ---------------------------
(***************************************************************************)
(* LlamaCppBackend::load and Drop around llama.cpp's global backend:       *)
(* BACKEND_REFCOUNT decides who calls llama_backend_init and               *)
(* llama_backend_free, but counting and calling are two steps.  A slot is  *)
(* a place of the program that loads a backend and later drops it, as      *)
(* often as MaxLoads in all; slots belong to different threads.            *)
(*                                                                         *)
(* llama.cpp is external: initialized says whether its globals are up.     *)
(***************************************************************************)
EXTENDS Integers, FiniteSets

CONSTANTS Slot,      \* places that hold at most one backend each
          MaxLoads   \* bound: loads in all

ASSUME RefcountAssumption ==
  /\ IsFiniteSet(Slot)
  /\ MaxLoads \in Nat

VARIABLES
  refcount,     \* BACKEND_REFCOUNT
  initialized,  \* llama.cpp's globals are initialised
  slots,        \* slot -> where its load or drop is
  loads,        \* loads so far
  failed,       \* loads that ended in an error
  overlapped    \* history: a load or drop began while another was under way

refcountVars == <<refcount, initialized, slots, loads, failed, overlapped>>

RefcountTypeOK ==
  /\ refcount \in 0..loads
  /\ initialized \in BOOLEAN
  /\ slots \in [Slot -> {"empty", "initializing", "loading", "live", "freeing"}]
  /\ loads \in Nat
  /\ failed \in 0..loads
  /\ overlapped \in BOOLEAN

RefcountInit ==
  /\ refcount = 0
  /\ initialized = FALSE
  /\ slots = [s \in Slot |-> "empty"]
  /\ loads = 0
  /\ failed = 0
  /\ overlapped = FALSE

Begin(s) ==
  overlapped' = (overlapped \/ \E t \in Slot \ {s} : slots[t] \notin {"empty", "live"})

(* Mutant: the counter is used as a flag. *)
MutantCountAsFlag(s) ==
  /\ slots[s] = "empty"
  /\ loads < MaxLoads
  /\ Begin(s)
  /\ loads' = loads + 1
  /\ refcount' = 1
  /\ slots' = [slots EXCEPT ![s] = IF refcount = 0 THEN "initializing" ELSE "loading"]
  /\ UNCHANGED <<initialized, failed>>

(* fetch_add: who finds 0 initialises, the others go on to load. *)
Count(s) ==
  /\ slots[s] = "empty"
  /\ loads < MaxLoads
  /\ Begin(s)
  /\ loads' = loads + 1
  /\ refcount' = refcount + 1
  /\ slots' = [slots EXCEPT ![s] = IF refcount = 0 THEN "initializing" ELSE "loading"]
  /\ UNCHANGED <<initialized, failed>>

Initialize(s) ==
  /\ slots[s] = "initializing"
  /\ initialized' = TRUE
  /\ slots' = [slots EXCEPT ![s] = "loading"]
  /\ UNCHANGED <<refcount, loads, failed, overlapped>>

LoadSucceeds(s) ==
  /\ slots[s] = "loading"
  /\ slots' = [slots EXCEPT ![s] = "live"]
  /\ UNCHANGED <<refcount, initialized, loads, failed, overlapped>>

(* Mutant: a failed load is counted down by load and by a Drop. *)
MutantLoadFails(s) ==
  /\ slots[s] = "loading"
  /\ slots' = [slots EXCEPT ![s] = "empty"]
  /\ refcount' = refcount - 2
  /\ failed' = failed + 1
  /\ UNCHANGED <<initialized, loads, overlapped>>

(* The model or the context is null: an error, and the count stays. *)
LoadFails(s) ==
  /\ slots[s] = "loading"
  /\ slots' = [slots EXCEPT ![s] = "empty"]
  /\ failed' = failed + 1
  /\ UNCHANGED <<refcount, initialized, loads, overlapped>>

(* Mutant: the one who drops frees without asking whether it is the last. *)
MutantDrop(s) ==
  /\ slots[s] = "live"
  /\ Begin(s)
  /\ refcount' = refcount - 1
  /\ slots' = [slots EXCEPT ![s] = "freeing"]
  /\ UNCHANGED <<initialized, loads, failed>>

(* Drop: free what is the instance's own, fetch_sub, the last one frees. *)
Drop(s) ==
  /\ slots[s] = "live"
  /\ Begin(s)
  /\ refcount' = refcount - 1
  /\ slots' = [slots EXCEPT ![s] = IF refcount = 1 THEN "freeing" ELSE "empty"]
  /\ UNCHANGED <<initialized, loads, failed>>

BackendFree(s) ==
  /\ slots[s] = "freeing"
  /\ initialized' = FALSE
  /\ slots' = [slots EXCEPT ![s] = "empty"]
  /\ UNCHANGED <<refcount, loads, failed, overlapped>>

RefcountNext ==
  \E s \in Slot :
    \/ Count(s) \/ Initialize(s) \/ LoadSucceeds(s) \/ LoadFails(s)
    \/ Drop(s) \/ BackendFree(s)

RefcountSpec == RefcountInit /\ [][RefcountNext]_refcountVars

-----------------------------------------------------------------------------
(* Properties *)

Counted == {s \in Slot : slots[s] \in {"initializing", "loading", "live"}}

(* Whatever overlaps and fails, the counter covers every backend that is    *)
(* loaded or being loaded, so it never wraps below 0.                       *)
CountCovers == refcount >= Cardinality(Counted)

(* Nobody is told to free llama.cpp while another backend is counted.       *)
LastFrees ==
  [][\A s \in Slot : slots[s] = "live" /\ slots'[s] = "freeing" => Counted' = {}]_refcountVars

(* As long as no load or drop begins while another is under way, llama.cpp  *)
(* is initialised while a backend exists or loads, nobody initialises it    *)
(* twice, and unless a load has failed it is freed with the last backend    *)
(* (backend.rs:29-31).                                                      *)
UpWhileUsed ==
  ~overlapped =>
    /\ \A s \in Slot :
         /\ slots[s] \in {"loading", "live"} => initialized
         /\ slots[s] = "initializing" => ~initialized
    /\ failed = 0 /\ (\A s \in Slot : slots[s] = "empty") => ~initialized

-----------------------------------------------------------------------------
(* "Initialize the backend (refcounted - safe for multiple instances)"      *)
(* (backend.rs:167): whatever overlaps, llama.cpp is initialised while a    *)
(* backend exists or loads its model. Counting and initialising are two     *)
(* steps, and so are counting down and freeing.                             *)
UpWheneverUsed ==
  \A s \in Slot : slots[s] \in {"loading", "live"} => initialized
=============================================================================
