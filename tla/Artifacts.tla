----------------------------- MODULE Artifacts -----------------------------
(***************************************************************************)
(* src/zero/app/artifact_service.py with its repository: the evidence a    *)
(* project keeps, stored once per content with a row for each producer,    *)
(* and the documents of its knowledge base with the index made of them.    *)
(*                                                                         *)
(* Storing an artifact, approving a document and rebuilding the index are  *)
(* transactions; taking a document out of the index and writing its new    *)
(* state are two.  A document stands for its source, which a project has   *)
(* once; titles, queries and who may call are left out.                    *)
(***************************************************************************)
EXTENDS Integers, FiniteSets

CONSTANTS
  Keepers,     \* threads that store and curate
  Contents,    \* contents of artifacts
  Documents,   \* documents, by their source
  Nothing,     \* none of them
  MaxStores,   \* BOUND: artifacts stored
  MaxEdits,    \* BOUND: operations on documents
  MaxDeaths    \* BOUND: operations that raise or die under way

ASSUME ArtifactLimits == {MaxStores, MaxEdits, MaxDeaths} \subseteq Nat

VARIABLES
  artifacts,   \* rows: an id and a content
  provenance,  \* rows: the artifact's id and the store that produced it
  document,    \* rag_documents.state, "none" without a row
  index,       \* rag_index_entries
  keeper,      \* what each thread is doing
  writer,      \* the threads whose transaction is under way
  stores,      \* stores so far
  edits,       \* operations on documents so far
  deaths,
  refused,     \* HISTORY: a store failed beside another of the same content
  oneByOne     \* whether documents are curated by one thread at a time

artifactVars == <<artifacts, provenance, document, index, keeper, writer, stores, edits, deaths, refused, oneByOne>>

\* doing, on what, the id a store found or 0, and the number of the store
Resting == [pc |-> "idle", on |-> Nothing, found |-> 0, no |-> 0]

ArtifactsInit ==
  /\ artifacts = {} /\ provenance = {} /\ index = {} /\ writer = {}
  /\ document = [d \in Documents |-> "none"]
  /\ keeper = [k \in Keepers |-> Resting]
  /\ stores = 0 /\ edits = 0 /\ deaths = 0 /\ refused = FALSE
  /\ oneByOne \in BOOLEAN

Keeps(k, step) == keeper' = [keeper EXCEPT ![k] = step]
Rests(k) == Keeps(k, Resting)
Writable == writer = {}

-----------------------------------------------------------------------------
(* store_artifact. *)

\* MUTANT of Excluding: what is there is read before the transaction begins.
ExcludingLater(k) == {}

\* BEGIN IMMEDIATE, before the content is looked up.
Excluding(k) == {k}

SameContent(c) == {a \in artifacts : a.content = c}

BeginStore(k, c) ==
  /\ keeper[k].pc = "idle" /\ Writable /\ stores < MaxStores
  /\ stores' = stores + 1
  /\ writer' = Excluding(k)
  /\ Keeps(k, [pc |-> "storing", on |-> c, no |-> stores + 1,
               found |-> IF SameContent(c) = {} THEN 0 ELSE (CHOOSE a \in SameContent(c) : TRUE).id])
  /\ UNCHANGED <<artifacts, provenance, document, index, edits, deaths, refused, oneByOne>>

\* The artifact if it is new, and a row for the producer; the row of a content that
\* came in meanwhile is passed over, and then the producer's row has no artifact.
Stored(k) ==
  LET s == keeper[k]
      id == IF s.found # 0 THEN s.found ELSE s.no
      new == IF s.found = 0 /\ SameContent(s.on) = {} THEN {[id |-> id, content |-> s.on]} ELSE {}
  IN IF \E a \in artifacts \cup new : a.id = id
     THEN /\ artifacts' = artifacts \cup new
          /\ provenance' = provenance \cup {[artifact |-> id, no |-> s.no]}
          /\ UNCHANGED refused
     ELSE refused' = TRUE /\ UNCHANGED <<artifacts, provenance>>

CommitStore(k) ==
  /\ keeper[k].pc = "storing" /\ writer \subseteq {k}
  /\ Stored(k)
  /\ writer' = {} /\ Rests(k)
  /\ UNCHANGED <<document, index, stores, edits, deaths, oneByOne>>

-----------------------------------------------------------------------------
(* The documents. *)

curated == <<artifacts, provenance, stores, writer, refused, oneByOne>>

\* A thread begins an operation on a document, alone where documents are curated
\* by one thread at a time.
Curates(k) ==
  /\ keeper[k].pc = "idle" /\ edits < MaxEdits
  /\ oneByOne => \A l \in Keepers : keeper[l].pc \in {"idle", "storing"}
  /\ edits' = edits + 1

\* ingest_rag_document: the row, as a candidate if it is to be approved.  The
\* source may be there already, which is refused.
Ingest(k, d, state) ==
  /\ Curates(k) /\ Writable /\ document[d] = "none"
  /\ document' = [document EXCEPT ![d] = IF state = "approved" THEN "candidate" ELSE state]
  /\ IF state = "approved" THEN Keeps(k, [Resting EXCEPT !.pc = "approving", !.on = d]) ELSE UNCHANGED keeper
  /\ UNCHANGED <<index, deaths, curated>>

\* approve_rag_document looks at the state outside its transaction.
BeginApprove(k, d) ==
  /\ Curates(k) /\ document[d] = "candidate"
  /\ Keeps(k, [Resting EXCEPT !.pc = "approving", !.on = d])
  /\ UNCHANGED <<document, index, deaths, curated>>

\* Index entry, state and index version in one transaction.
Approve(k) ==
  /\ keeper[k].pc = "approving" /\ Writable
  /\ index' = index \cup {keeper[k].on}
  /\ document' = [document EXCEPT ![keeper[k].on] = "approved"]
  /\ Rests(k)
  /\ UNCHANGED <<edits, deaths, curated>>

\* MUTANT of Removal: the state is written before the entry goes.
RemovalSwapped == <<"state", "entry">>

\* The two writes of a removal, each committed.
Removal == <<"entry", "state">>

Writes(what, d, to) ==
  \/ what = "entry" /\ index' = index \ {d} /\ UNCHANGED document
  \/ what = "state" /\ document' = [document EXCEPT ![d] = to] /\ UNCHANGED index

\* supersede_rag_document and archive_rag_document, whatever the state was.
Remove(k, d, to) ==
  /\ Curates(k) /\ Writable /\ document[d] # "none"
  /\ Writes(Removal[1], d, to)
  /\ Keeps(k, [Resting EXCEPT !.pc = to, !.on = d])
  /\ UNCHANGED <<deaths, curated>>

FinishRemoval(k) ==
  /\ keeper[k].pc \in {"superseded", "archived"} /\ Writable
  /\ Writes(Removal[2], keeper[k].on, keeper[k].pc)
  /\ Rests(k)
  /\ UNCHANGED <<edits, deaths, curated>>

\* rebuild_rag_index: its deletes and inserts are committed together.
Rebuild(k) ==
  /\ Curates(k) /\ Writable
  /\ index' = {d \in Documents : document[d] = "approved"}
  /\ UNCHANGED <<document, keeper, deaths, curated>>

\* An operation raises or dies: its transaction is rolled back, and what it had
\* committed stays.  An ingestion whose indexing failed removes the entry, if it can.
Ends(k) ==
  /\ keeper[k].pc # "idle" /\ deaths < MaxDeaths
  /\ deaths' = deaths + 1
  /\ writer' = writer \ {k} /\ Rests(k)
  /\ UNCHANGED <<artifacts, provenance, document, index, stores, edits, refused, oneByOne>>

\* What search_rag can find: it reads the index and then the document, not its state.
Searchable == {d \in index : document[d] # "none"}

ArtifactsNext == \E k \in Keepers :
  \/ \E c \in Contents : BeginStore(k, c)
  \/ CommitStore(k)
  \/ \E d \in Documents :
       \/ \E state \in {"candidate", "approved"} : Ingest(k, d, state)
       \/ BeginApprove(k, d)
       \/ \E to \in {"superseded", "archived"} : Remove(k, d, to)
  \/ Approve(k) \/ FinishRemoval(k) \/ Rebuild(k) \/ Ends(k)

-----------------------------------------------------------------------------
\* PROPERTY (safety).  A store is never refused because another thread stored the
\* same content, whichever came first, and each that ended has its producer's row at
\* an artifact that is there; and while documents are curated by one thread at a
\* time, a search finds approved ones only, also between the two writes of a removal
\* and after one that died there.
EvidenceSound ==
  /\ ~refused
  /\ \A p \in provenance : \E a \in artifacts : a.id = p.artifact
  /\ \A a, b \in artifacts : a.content = b.content => a = b
  /\ oneByOne => \A d \in Searchable : document[d] = "approved"
=============================================================================
