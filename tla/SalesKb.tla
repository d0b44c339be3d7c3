------------------------------- MODULE SalesKb -------------------------------
(***************************************************************************)
(* The knowledge base of the sales assistant (sales-kb.service.ts): every  *)
(* entry keeps a vector of its question and the name of the model that     *)
(* computed it; retrieval compares the vector of a visitor's question with *)
(* the vectors of the model in use.  One process; each await is a step.    *)
(***************************************************************************)
EXTENDS Integers, FiniteSets

CONSTANTS
  Entry,         \* ids of entries
  Question,      \* texts of userMessage
  Embedder,      \* embedding models
  Curator,       \* calls of create, bulkImport, update and remove that may run at once
  Retriever,     \* calls of retrieveRelevant that may run at once
  MaxEdits,      \* bound: edits begun
  MaxRetrievals, \* bound: retrievals begun
  MaxSwitches    \* bound: changes of the model and recomputations; caches expire at any time

ASSUME SalesKbAssumption ==
  /\ IsFiniteSet(Entry) /\ IsFiniteSet(Question) /\ IsFiniteSet(Embedder)
  /\ Question \cap {"none", "gone"} = {}    \* what stands for no text
  /\ MaxEdits \in Nat /\ MaxRetrievals \in Nat /\ MaxSwitches \in Nat

VARIABLES
  entry,     \* SalesKbEntry rows
  inUse,     \* SalesBotConfig.embeddingModel
  known,     \* the model as SalesConfigService has it cached
  shelf,     \* the cached entries
  curator,   \* create, bulkImport, update and remove
  recompute, \* recomputeAll
  retriever, \* retrieveRelevant
  kbSpent,   \* for the bounds: edits, retrievals and switches so far
  excusedKb  \* history: what explains the exceptions of the properties

kbVars == <<entry, inUse, known, shelf, curator, recompute, retriever, kbSpent, excusedKb>>

NoVector == [of |-> "none", model |-> "none"]
NoEntry == [text |-> "none", active |-> FALSE, vector |-> NoVector]
NoShelf == [held |-> FALSE, rows |-> {}]
NoModel == "none"
CuratorIdle == [at |-> "idle", todo |-> {}, text |-> "none", vector |-> NoVector, model |-> NoModel]
RecomputeIdle == [at |-> "idle", todo |-> {}, was |-> [x \in Entry |-> "none"],
                  model |-> NoModel, vector |-> NoVector, failed |-> FALSE]
RetrieverIdle == [at |-> "idle", model |-> NoModel, rows |-> {}, query |-> NoModel, crossed |-> FALSE]

SalesKbInit ==
  /\ entry = [x \in Entry |-> NoEntry] /\ inUse = (CHOOSE m \in Embedder : TRUE) /\ known = NoModel /\ shelf = NoShelf
  /\ curator = [c \in Curator |-> CuratorIdle] /\ recompute = RecomputeIdle
  /\ retriever = [r \in Retriever |-> RetrieverIdle]
  /\ kbSpent = [edits |-> 0, retrievals |-> 0, switches |-> 0]
  /\ excusedKb = [vector |-> {}, recomputed |-> {}, shelf |-> FALSE]

Gone == [NoEntry EXCEPT !.text = "gone"]
Exists(x) == entry[x].text \notin {"none", "gone"}
ActiveModel == IF known = NoModel THEN inUse ELSE known
Vector(text, model) == [of |-> text, model |-> model]

(* getActiveEmbeddingModel, by way of the cached configuration. *)
ReadModel == known' = ActiveModel

(* Entries read by a retrieval and not yet in the cache are out of date. *)
Overtake == retriever' = [r \in Retriever |-> [retriever[r] EXCEPT !.crossed = @ \/ retriever[r].at = "filling"]]

(* A call that has written its row drops the cache when the answer of the  *)
(* database arrives, and bulkImport takes the next entry.                  *)
Continue(c, todo) ==
  IF todo = {}
    THEN curator' = [curator EXCEPT ![c] = CuratorIdle] /\ UNCHANGED known
    ELSE /\ curator' = [curator EXCEPT ![c].at = "import", ![c].todo = todo, ![c].model = ActiveModel]
         /\ ReadModel

DropShelf(c) ==
  /\ curator[c].at = "drop" /\ shelf' = NoShelf
  /\ excusedKb' = [excusedKb EXCEPT !.shelf = FALSE]
  /\ Continue(c, curator[c].todo)
  /\ UNCHANGED <<entry, inUse, recompute, retriever, kbSpent>>

(* create (todo has one entry) and bulkImport (it may have several), one   *)
(* entry after the other: the model in use, then the vector or none ...    *)
ImportEntries(c, todo, text) ==
  /\ curator[c].at = "idle" /\ kbSpent.edits < MaxEdits
  /\ todo # {} /\ \A x \in todo : entry[x] = NoEntry /\ \A d \in Curator : x \notin curator[d].todo
  /\ curator' = [curator EXCEPT ![c] = [at |-> "import", todo |-> todo, text |-> text,
                                        vector |-> NoVector, model |-> ActiveModel]]
  /\ ReadModel
  /\ kbSpent' = [kbSpent EXCEPT !.edits = @ + 1]
  /\ UNCHANGED <<entry, inUse, shelf, recompute, retriever, excusedKb>>

EmbedImport(c, works) ==
  /\ curator[c].at = "import"
  /\ curator' = [curator EXCEPT ![c].at = "insert",
                   ![c].vector = IF works THEN Vector(curator[c].text, curator[c].model) ELSE NoVector]
  /\ UNCHANGED <<entry, inUse, known, shelf, recompute, retriever, kbSpent, excusedKb>>

(* ... then the row.  An insert that fails does not stop the others. *)
InsertEntry(c, x) ==
  /\ curator[c].at = "insert" /\ x \in curator[c].todo
  /\ entry' = [entry EXCEPT ![x] = [text |-> curator[c].text, active |-> TRUE, vector |-> curator[c].vector]]
  /\ curator' = [curator EXCEPT ![c].at = "drop", ![c].todo = @ \ {x}, ![c].vector = NoVector]
  /\ excusedKb' = [excusedKb EXCEPT !.recomputed = @ \cup {x}]
  /\ Overtake
  /\ UNCHANGED <<inUse, known, shelf, recompute, kbSpent>>

FailInsert(c, x) ==
  /\ curator[c].at = "insert" /\ x \in curator[c].todo
  /\ Continue(c, curator[c].todo \ {x})
  /\ UNCHANGED <<entry, inUse, shelf, recompute, retriever, kbSpent, excusedKb>>

(* update with a new question: a new vector, kept out if it fails. *)
EditEntry(c, x, text) ==
  /\ curator[c].at = "idle" /\ kbSpent.edits < MaxEdits /\ Exists(x) /\ text # entry[x].text
  /\ curator' = [curator EXCEPT ![c] = [at |-> "edit", todo |-> {x}, text |-> text,
                                        vector |-> NoVector, model |-> ActiveModel]]
  /\ ReadModel
  /\ kbSpent' = [kbSpent EXCEPT !.edits = @ + 1]
  /\ UNCHANGED <<entry, inUse, shelf, recompute, retriever, excusedKb>>

EmbedEdit(c, works) ==
  /\ curator[c].at = "edit"
  /\ curator' = [curator EXCEPT ![c].at = "save",
                   ![c].vector = IF works THEN Vector(curator[c].text, curator[c].model) ELSE NoVector]
  /\ UNCHANGED <<entry, inUse, known, shelf, recompute, retriever, kbSpent, excusedKb>>

Refreshed(old, new) == IF new = NoVector THEN old ELSE new

Written(c) == curator' = [curator EXCEPT ![c] = [CuratorIdle EXCEPT !.at = "drop"]]

(* A row removed meanwhile is not found. *)
SaveEdit(c, x) ==
  /\ curator[c].at = "save" /\ x \in curator[c].todo
  /\ LET overtaken == recompute.at # "idle" \/ curator[c].vector = NoVector
     IN IF Exists(x)
          THEN /\ entry' = [entry EXCEPT ![x].text = curator[c].text,
                                         ![x].vector = Refreshed(@, curator[c].vector)]
               /\ excusedKb' = [excusedKb EXCEPT !.vector = IF overtaken THEN @ \cup {x} ELSE @ \ {x},
                                                 !.recomputed = @ \cup {x}]
               /\ Written(c) /\ Overtake
          ELSE /\ curator' = [curator EXCEPT ![c] = CuratorIdle]
               /\ UNCHANGED <<entry, retriever, excusedKb>>
  /\ UNCHANGED <<inUse, known, shelf, recompute, kbSpent>>

(* update that turns an entry on or off: nothing is embedded.  remove. *)
WriteAtOnce(c, x, row) ==
  /\ curator[c].at = "idle" /\ Exists(x) /\ kbSpent.edits < MaxEdits
  /\ entry' = [entry EXCEPT ![x] = row]
  /\ kbSpent' = [kbSpent EXCEPT !.edits = @ + 1]
  /\ Written(c) /\ Overtake
  /\ UNCHANGED <<inUse, known, shelf, recompute, excusedKb>>

SwitchEntry(c, x) == WriteAtOnce(c, x, [entry[x] EXCEPT !.active = ~@])
RemoveEntry(c, x) == WriteAtOnce(c, x, Gone)

Recomputed_Active(x) == Exists(x) /\ entry[x].active
Recomputed(x) == Exists(x)

(* recomputeAll: the model, the rows with their questions ... *)
BeginRecompute ==
  /\ recompute.at = "idle" /\ kbSpent.switches < MaxSwitches
  /\ recompute' = [at |-> "next", todo |-> {x \in Entry : Recomputed(x)},
                   was |-> [x \in Entry |-> entry[x].text], model |-> ActiveModel,
                   vector |-> NoVector, failed |-> FALSE]
  /\ ReadModel
  /\ kbSpent' = [kbSpent EXCEPT !.switches = @ + 1]
  /\ excusedKb' = [excusedKb EXCEPT !.recomputed = {}]
  /\ UNCHANGED <<entry, inUse, shelf, curator, retriever>>

(* ... then for each of them the vector of the question read before, ... *)
EmbedRow(x, works) ==
  /\ recompute.at = "next" /\ x \in recompute.todo
  /\ recompute' = IF works
                  THEN [recompute EXCEPT !.at = "write", !.vector = Vector(recompute.was[x], recompute.model)]
                  ELSE [recompute EXCEPT !.todo = @ \ {x}, !.failed = TRUE]
  /\ UNCHANGED <<entry, inUse, known, shelf, curator, retriever, kbSpent, excusedKb>>

(* ... written by id; a row removed meanwhile ends the whole call. *)
WriteRow(x) ==
  /\ recompute.at = "write" /\ x \in recompute.todo /\ recompute.was[x] = recompute.vector.of
  /\ IF Exists(x)
       THEN /\ entry' = [entry EXCEPT ![x].vector = recompute.vector]
            /\ recompute' = [recompute EXCEPT !.at = "next", !.todo = @ \ {x}]
            /\ excusedKb' = IF entry[x].text = recompute.was[x]
                            THEN [excusedKb EXCEPT !.vector = @ \ {x}] ELSE excusedKb
       ELSE /\ recompute' = RecomputeIdle /\ UNCHANGED entry
            /\ excusedKb' = [excusedKb EXCEPT !.shelf = TRUE]
  /\ Overtake
  /\ UNCHANGED <<inUse, known, shelf, curator, kbSpent>>

EndRecompute ==
  /\ recompute.at = "next" /\ recompute.todo = {}
  /\ recompute' = [RecomputeIdle EXCEPT !.model = recompute.model, !.failed = recompute.failed]
  /\ shelf' = NoShelf /\ excusedKb' = [excusedKb EXCEPT !.shelf = FALSE]
  /\ UNCHANGED <<entry, inUse, known, curator, retriever, kbSpent>>

Comparable(rows, model) == {w \in rows : w.vector.model = model}

(* retrieveRelevant: the model, then the cached entries ... *)
BeginRetrieve(r) ==
  /\ retriever[r].at = "idle" /\ kbSpent.retrievals < MaxRetrievals
  /\ ReadModel
  /\ kbSpent' = [kbSpent EXCEPT !.retrievals = @ + 1]
  /\ retriever' = [retriever EXCEPT ![r] =
       IF ~shelf.held
       THEN [at |-> "reading", model |-> ActiveModel, rows |-> {}, query |-> NoModel, crossed |-> FALSE]
       ELSE [at |-> "embedding", model |-> ActiveModel, rows |-> Comparable(shelf.rows, ActiveModel),
             query |-> NoModel, crossed |-> FALSE]]
  /\ UNCHANGED <<entry, inUse, shelf, curator, recompute, excusedKb>>

Shelved == {[text |-> entry[x].text, vector |-> entry[x].vector] :
              x \in {y \in Entry : entry[y].active /\ entry[y].vector # NoVector}}

(* ... or the active ones that have a vector, read from the database ... *)
ReadEntries(r) ==
  /\ retriever[r].at = "reading"
  /\ retriever' = [retriever EXCEPT ![r].at = "filling", ![r].rows = Shelved, ![r].crossed = FALSE]
  /\ UNCHANGED <<entry, inUse, known, shelf, curator, recompute, kbSpent, excusedKb>>

(* ... and put in the cache when they arrive. *)
FillShelf(r) ==
  /\ retriever[r].at = "filling"
  /\ shelf' = [held |-> TRUE, rows |-> retriever[r].rows]
  /\ excusedKb' = [excusedKb EXCEPT !.shelf = retriever[r].crossed]
  /\ retriever' = [retriever EXCEPT ![r].at = "embedding", ![r].crossed = FALSE,
                     ![r].rows = Comparable(retriever[r].rows, retriever[r].model)]
  /\ UNCHANGED <<entry, inUse, known, curator, recompute, kbSpent>>

(* The question's vector is compared with theirs. *)
Retrieve(r, works) ==
  /\ retriever[r].at = "embedding" /\ (works => retriever[r].rows # {})
  /\ retriever' = [retriever EXCEPT ![r].at = "compared",
                     ![r].query = IF works THEN retriever[r].model ELSE NoModel,
                     ![r].rows = IF works THEN @ ELSE {}]
  /\ UNCHANGED <<entry, inUse, known, shelf, curator, recompute, kbSpent, excusedKb>>

EndRetrieve(r) ==
  /\ retriever[r].at = "compared"
  /\ retriever' = [retriever EXCEPT ![r] = RetrieverIdle]
  /\ UNCHANGED <<entry, inUse, known, shelf, curator, recompute, kbSpent, excusedKb>>

(* The operator changes the model, by way of this process, whose cached    *)
(* configuration follows, or of another.                                   *)
ChangeModel(m, here) ==
  /\ m # inUse /\ kbSpent.switches < MaxSwitches
  /\ inUse' = m /\ known' = IF here THEN m ELSE known
  /\ kbSpent' = [kbSpent EXCEPT !.switches = @ + 1]
  /\ UNCHANGED <<entry, shelf, curator, recompute, retriever, excusedKb>>

(* A minute passes for one of the caches. *)
KbCachesExpire ==
  /\ \/ known # NoModel /\ known' = NoModel /\ UNCHANGED shelf
     \/ shelf.held /\ shelf' = NoShelf /\ UNCHANGED known
  /\ UNCHANGED <<entry, inUse, curator, recompute, retriever, kbSpent, excusedKb>>

SalesKbNext ==
  \/ \E c \in Curator :
       \/ \E todo \in SUBSET Entry, text \in Question : ImportEntries(c, todo, text)
       \/ \E works \in BOOLEAN : EmbedImport(c, works) \/ EmbedEdit(c, works)
       \/ \E x \in Entry : \/ InsertEntry(c, x) \/ FailInsert(c, x) \/ SaveEdit(c, x)
                           \/ \E text \in Question : EditEntry(c, x, text)
                           \/ SwitchEntry(c, x) \/ RemoveEntry(c, x)
       \/ DropShelf(c)
  \/ \E x \in Entry : WriteRow(x) \/ \E works \in BOOLEAN : EmbedRow(x, works)
  \/ BeginRecompute \/ EndRecompute
  \/ \E r \in Retriever : \/ BeginRetrieve(r) \/ ReadEntries(r) \/ FillShelf(r) \/ EndRetrieve(r)
                          \/ \E works \in BOOLEAN : Retrieve(r, works)
  \/ \E m \in Embedder, here \in BOOLEAN : ChangeModel(m, here)
  \/ KbCachesExpire

(***************************************************************************)
(* Properties                                                              *)
(***************************************************************************)

(* The vector of an entry is the one of its question, unless the question  *)
(* was changed while the vectors were being recomputed or when no vector   *)
(* could be computed: update then keeps the old vector, and recomputeAll   *)
(* writes vectors of the questions it had read at its start.               *)
VectorsMatchQuestions ==
  \A x \in Entry : entry[x].vector # NoVector => (entry[x].vector.of = entry[x].text \/ x \in excusedKb.vector)

(* Vectors of two models are never compared (the comment of the class): a  *)
(* visitor's question is compared with vectors of its own model, whatever  *)
(* the operator changes meanwhile.                                         *)
ComparedLikeWithLike ==
  \A r \in Retriever : retriever[r].at = "compared" => \A w \in retriever[r].rows : w.vector.model = retriever[r].query

(* A recomputation that reported no failure has brought every entry to its *)
(* model, switched off ones too, but those written since it began.         *)
RecomputeReachesAll ==
  (recompute.at = "idle" /\ recompute.model # NoModel /\ ~recompute.failed)
    => \A x \in Entry : Exists(x) => entry[x].vector.model = recompute.model \/ x \in excusedKb.recomputed

(* The cache holds the active entries as they are, unless the rows were    *)
(* read before an edit that dropped the cache, or an edit or a             *)
(* recomputation has been written that is still to drop it.                *)
Dropping == \E c \in Curator : curator[c].at = "drop"
ShelfIsCurrent ==
  (shelf.held /\ recompute.at = "idle" /\ ~Dropping /\ ~excusedKb.shelf) => shelf.rows = Shelved
=============================================================================
