------------------------------ MODULE MCAlloc ------------------------------
(* Instantiation of Alloc for TLC: a scaled-down page so that a handful   *)
(* of calls fills, splits and regrows the heap.                           *)
(*                                                                         *)
(* MCSpec checks two clients in one run: one that never calls realloc and *)
(* one that does.  harnessOn, also fixed for a behaviour, says whether    *)
(* the client calls the allocator directly or through the checked        *)
(* wrappers of the test framework (AllocHarness), as tests.c does.  The   *)
(* direct client with realloc passes ReallocSizes, the others Sizes.      *)
EXTENDS AllocHarness

CONSTANTS
  ReallocModes,   \* which clients to explore: a subset of BOOLEAN
  ReallocSizes,   \* byte sizes of the direct realloc client
  HarnessModes,   \* direct client, harness client: a subset of BOOLEAN
  MaxCheckedCalls \* calls a harness client makes

VARIABLES reallocOn, harnessOn, calls

modes == <<reallocOn, harnessOn>>

(* The client's pointer variables are interchangeable, and so are the    *)
(* framework's region objects: no check depends on which one it gets.    *)
SlotSymmetry == Permutations(Slots) \cup Permutations(RegionIds)

(* The test of a harness client has returned. *)
TestReturned ==
  /\ calls = MaxCheckedCalls
  /\ UNCHANGED <<vars, hvars, calls>>

ClientSizes == IF reallocOn /\ ~harnessOn THEN ReallocSizes ELSE Sizes

MCInit == HInit /\ reallocOn \in ReallocModes /\ harnessOn \in HarnessModes /\ calls = 0

DirectNext ==
  /\ ~harnessOn
  /\ UNCHANGED <<hvars, calls>>
  /\ \/ \E s \in Slots, size \in ClientSizes \cup {0} : Malloc(s, size)
     \/ \E s \in Slots, n \in Nmemb, size \in ClientSizes \cup {0} : Calloc(s, n, size)
     \/ \E s \in Slots : Free(s)
     \/ \E p \in Unheld \cup {NULL} : FreeUnheld(p)
     \/ reallocOn /\ \E s \in Slots, size \in ClientSizes \cup {0} : Realloc(s, size)

(* The harness client calls the checked wrappers until a check fires or   *)
(* it has made MaxCheckedCalls calls; then its test returns.              *)
HarnessNext ==
  /\ harnessOn
  /\ \/ /\ calls < MaxCheckedCalls
        /\ calls' = calls + 1
        /\ \/ \E s \in Slots, n \in Nmemb, size \in ClientSizes \cup {0} :
                CheckedAlloc(s, n, size)
           \/ \E s \in Slots : CheckedFree(s)
           \/ reallocOn /\ \E s \in Slots, size \in ClientSizes \cup {0} :
                CheckedRealloc(s, size)
     \/ Exited /\ UNCHANGED calls
     \/ TestReturned

MCNext == UNCHANGED modes /\ (DirectNext \/ HarnessNext)

MCSpec == MCInit /\ [][MCNext]_<<vars, hvars, modes, calls>>

(* For a client that never calls realloc, no two held allocations share  *)
(* a word (mymalloc, mycalloc, myfree); with realloc this fails, see the  *)
(* alloc_realloc_alias run.                                               *)
NoAliasingNoRealloc == ~reallocOn => NoAliasing

(* For a client that never calls realloc, the in-use flags of the chain   *)
(* match what the client holds exactly (mymalloc, myfree, split_block).   *)
InUseExactlyHeldNoRealloc == ~reallocOn => InUseExactlyHeld

(* The framework raises no false alarm: a test that calls checked_alloc,  *)
(* checked_alloc_array and checked_free in any order passes every check   *)
(* of memlist.c and checked_alloc.c against this allocator.               *)
SilentWithoutRealloc == harnessOn /\ ~reallocOn => Running

(* RegionListMirrorsHeld and FaultsReported, for the harness clients. *)
HarnessListMirrorsHeld == harnessOn => RegionListMirrorsHeld

HarnessReportsFaults == harnessOn => FaultsReported

=============================================================================
