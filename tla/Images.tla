-------------------------------- MODULE Images --------------------------------
(***************************************************************************)
(* Images drawn and edited in a chat (handleImageGeneration and what it    *)
(* calls in chat.service.ts), the objects they leave in the bucket         *)
(* (storage.service.ts), and the job that deletes them after a day         *)
(* (chat-image-cleanup.processor.ts). How many may be drawn is the subject *)
(* of ImageLimits.                                                         *)
(*                                                                         *)
(* The state is that of one user with one conversation. A request makes at *)
(* most two rows, its own message and the answer, with one image each; a   *)
(* row and the object of its image share a name. Time is counted in ticks. *)
(***************************************************************************)
EXTENDS Integers, Sequences, FiniteSets, Functions

CONSTANTS
  Drawer,       \* requests that may be in progress at once
  ImageModel,   \* active models that draw: [name, tier, size, order, price]
  ImageDay,     \* RETENTION_MS, in ticks
  MaxAsks,      \* bound: requests that ever begin
  MaxTicks      \* bound: the clock

ASSUME ImagesAssumption ==
  /\ IsFiniteSet(Drawer) /\ IsFiniteSet(ImageModel)
  /\ \A m \in ImageModel : m.order \in Nat /\ m.price \in Nat
  /\ ImageDay \in Nat \ {0} /\ MaxAsks \in Nat /\ MaxTicks \in Nat

VARIABLES
  tick,       \* the clock
  bucket,     \* the objects in the bucket
  row,        \* Message rows: their image, and when they were created
  drawer,     \* requests in progress
  asks,       \* requests that have begun, for the bound
  cleanup,    \* the cleanup job: where it is, the row it is at, those it has left
  undeleted,  \* history: objects whose deletion failed
  dropped,    \* history: objects of requests that ended before their row was saved
  cutShort    \* history: rows whose cleaning stopped half-way

rows == <<bucket, row>>
imageHistory == <<undeleted, dropped, cutShort>>
imageVars == <<tick, rows, drawer, asks, cleanup, imageHistory>>

Ask == 1..MaxAsks
ImageTimes == 0..MaxTicks
RowId == Ask \X {"USER", "ASSISTANT"}
NoRow == [image |-> "none", at |-> -1]
NoDrawing == [at |-> "idle", ask |-> 0, attached |-> FALSE, edit |-> FALSE, image |-> "none", models |-> {},
              chain |-> <<>>, ideal |-> <<>>, call |-> "first"]
NoCleanup == [at |-> "idle", of |-> <<>>, left |-> {}]

ImagesInit ==
  /\ tick = 0
  /\ bucket = {} /\ row = [id \in RowId |-> NoRow]
  /\ drawer = [r \in Drawer |-> NoDrawing] /\ asks = 0
  /\ cleanup = NoCleanup
  /\ undeleted = {} /\ dropped = {} /\ cutShort = {}

Own(r) == <<drawer[r].ask, "USER">>
Answer(r) == <<drawer[r].ask, "ASSISTANT">>
Move(r, x) == drawer' = [drawer EXCEPT ![r] = x]
-----------------------------------------------------------------------------
\* A request, with an image to edit or without.
AskForImage(r, attached) ==
  /\ drawer[r].at = "idle" /\ asks < MaxAsks
  /\ asks' = asks + 1
  /\ Move(r, [NoDrawing EXCEPT !.at = "upload", !.ask = asks + 1,
                               !.attached = attached])
  /\ UNCHANGED <<tick, rows, cleanup, imageHistory>>

-----------------------------------------------------------------------------
(* Rows and objects *)

\* An image whose upload fails stays in the row as base64.
Persisted_AsKey(ok) == "key"
Persisted(ok) == IF ok THEN "key" ELSE "inline"

UploadInput(r, ok) ==
  /\ drawer[r].at = "upload"
  /\ IF drawer[r].attached
     THEN /\ bucket' = IF ok THEN bucket \union {Own(r)} ELSE bucket
          /\ Move(r, [drawer[r] EXCEPT !.at = "save", !.image = Persisted(ok)])
     ELSE Move(r, [drawer[r] EXCEPT !.at = "save"]) /\ UNCHANGED bucket
  /\ UNCHANGED <<tick, row, asks, cleanup, imageHistory>>

\* The message is saved before anything else can refuse the request.
SaveRequest(r) ==
  /\ drawer[r].at = "save"
  /\ row' = [row EXCEPT ![Own(r)] = [image |-> drawer[r].image, at |-> tick]]
  /\ Move(r, [drawer[r] EXCEPT !.at = "choose", !.image = "none"])
  /\ UNCHANGED <<tick, bucket, asks, cleanup, imageHistory>>
-----------------------------------------------------------------------------
(* The chain of models *)

\* rankImageModelCandidates: quality weighs more than size; models that are alike come in
\* any order.
Orderings(models) == {s \in [1..Cardinality(models) -> models] : Range(s) = models}

Score(m, ideal) ==
  (IF m.tier = ideal[1] THEN 2 ELSE 0) + (IF m.size = ideal[2] THEN 1 ELSE 0)
Outranks(a, b, ideal) ==
  \/ Score(a, ideal) > Score(b, ideal)
  \/ Score(a, ideal) = Score(b, ideal) /\ a.order < b.order
Ranked(models, ideal) ==
  {s \in Orderings(models) : \A i, j \in DOMAIN s : i < j => ~Outranks(s[j], s[i], ideal)}
InTurn(models) ==
  {s \in Orderings(models) : \A i, j \in DOMAIN s : i < j => s[i].order =< s[j].order}

\* The user's model, or the plan's, goes before the others.
First(s, p) == [i \in DOMAIN s |-> IF i = 1 THEN s[p] ELSE IF i =< p THEN s[i - 1] ELSE s[i]]
Chains(models, ideal) ==
  Ranked(models, ideal)
    \union {First(s, p) : s \in Ranked(models, ideal) \union InTurn(models), p \in 1..Cardinality(models)}

Ideals == {m.tier : m \in ImageModel} \X {m.size : m \in ImageModel}

\* Which of the plan's models are active is read now; with none the request is
\* refused, though its message has been saved.
ChooseModels(r, models, ideal) ==
  /\ drawer[r].at = "choose"
  /\ IF models = {} THEN Move(r, NoDrawing)
     ELSE \E chain \in Chains(models, ideal) :
            Move(r, [drawer[r] EXCEPT !.at = "afford", !.models = models, !.chain = chain,
                       !.ideal = IF chain \in Ranked(models, ideal) THEN ideal ELSE <<>>])
  /\ UNCHANGED <<tick, rows, asks, cleanup, imageHistory>>

\* With a pay-as-you-go plan only what the balance can pay for remains
\* (estimateWorstCaseImageUsd); any other plan pays for everything.
Affordable(chain, balance) ==
  {s \in Orderings({m \in Range(chain) : m.price =< balance}) :
     \A i, j \in DOMAIN s : i < j => \E k, l \in DOMAIN chain : k < l /\ chain[k] = s[i] /\ chain[l] = s[j]}
Balances == {0} \union {m.price : m \in ImageModel}

Afford(r, balance) ==
  /\ drawer[r].at = "afford"
  /\ \E chain \in Affordable(drawer[r].chain, balance) :
       Move(r, IF chain = <<>> THEN NoDrawing
               ELSE [drawer[r] EXCEPT !.at = "input", !.chain = chain,
                                      !.models = {m \in @ : m.price =< balance}])
  /\ UNCHANGED <<tick, rows, asks, cleanup, imageHistory>>
-----------------------------------------------------------------------------
(* Drawing *)

\* The latest row with an image; rows of the same tick come in any order.
LastPictured(id) ==
  /\ row[id].image # "none"
  /\ \A other \in RowId : row[other].image # "none" => row[other].at =< row[id].at

Downloadable(id) == row[id].image = "inline" \/ id \in bucket

\* The attached image is edited; else the last one, if the message was taken to
\* mean that (resolveLastConversationImages) and it can still be downloaded.
ResolveInput(r, edit) ==
  /\ drawer[r].at = "input"
  /\ drawer[r].attached => edit
  /\ edit => \/ drawer[r].attached
             \/ \E id \in RowId : LastPictured(id) /\ Downloadable(id)
  /\ Move(r, [drawer[r] EXCEPT !.at = "call", !.attached = FALSE, !.edit = edit,
                               !.models = {}, !.ideal = <<>>])
  /\ UNCHANGED <<tick, rows, asks, cleanup, imageHistory>>

\* callImagesApi: one more try after a network error or a 5xx, and one without
\* streaming for a model that refuses it. A body without an image is an error too.
Reply == {"image", "network", "5xx", "noStreaming", "refused", "empty", "policy"}
AfterReply(call, reply) ==
  IF reply = "image" THEN "drawn"
  ELSE IF reply = "policy" THEN "failed"
  ELSE IF call = "first" /\ reply \in {"network", "5xx"} THEN "second"
  ELSE IF call # "plain" /\ reply = "noStreaming" THEN "plain"
  ELSE "next"

\* A refusal on account of policy ends the request, any other error the model's turn.
CallModel(r, reply) ==
  /\ drawer[r].at = "call"
  /\ LET next == AfterReply(drawer[r].call, reply)
     IN  CASE next = "drawn"  -> Move(r, [NoDrawing EXCEPT !.at = "store", !.ask = drawer[r].ask])
           [] next = "failed" -> Move(r, NoDrawing)
           [] next = "next"   ->
                IF Len(drawer[r].chain) = 1 THEN Move(r, NoDrawing)
                ELSE Move(r, [drawer[r] EXCEPT !.chain = Tail(@), !.call = "first"])
           [] OTHER -> Move(r, [drawer[r] EXCEPT !.call = next])
  /\ UNCHANGED <<tick, rows, asks, cleanup, imageHistory>>

StoreImage(r, ok) ==
  /\ drawer[r].at = "store"
  /\ bucket' = IF ok THEN bucket \union {Answer(r)} ELSE bucket
  /\ Move(r, [drawer[r] EXCEPT !.at = "answer", !.image = Persisted(ok)])
  /\ UNCHANGED <<tick, row, asks, cleanup, imageHistory>>

SaveDrawing(r) ==
  /\ drawer[r].at = "answer"
  /\ row' = [row EXCEPT ![Answer(r)] = [image |-> drawer[r].image, at |-> tick]]
  /\ Move(r, NoDrawing)
  /\ UNCHANGED <<tick, bucket, asks, cleanup, imageHistory>>

\* A write fails, or the process is restarted.
FailDrawing(r) ==
  /\ drawer[r].at \in {"save", "choose", "answer"}
  /\ Move(r, NoDrawing)
  /\ dropped' = dropped \union
       (IF drawer[r].at = "save" THEN {Own(r)} ELSE IF drawer[r].at = "answer" THEN {Answer(r)} ELSE {})
  /\ UNCHANGED <<tick, rows, asks, cleanup, undeleted, cutShort>>
-----------------------------------------------------------------------------
(* The cleanup job *)

Expired(id) == row[id].image # "none" /\ row[id].at < tick - ImageDay

CleanSelect ==
  /\ cleanup.at = "idle"
  /\ \E id \in RowId : Expired(id)
  /\ \E id \in {id \in RowId : Expired(id)} :
       cleanup' = [at |-> "delete", of |-> id, left |-> {x \in RowId : Expired(x)} \ {id}]
  /\ UNCHANGED <<tick, rows, drawer, asks, imageHistory>>

\* The object is deleted; an error is logged, and the row cleared all the same.
Deletes(id) == row[id].image = "key"

CleanDelete(ok) ==
  /\ cleanup.at = "delete"
  /\ IF Deletes(cleanup.of) /\ ok
     THEN bucket' = bucket \ {cleanup.of} /\ UNCHANGED undeleted
     ELSE undeleted' = (IF Deletes(cleanup.of) THEN undeleted \union {cleanup.of} ELSE undeleted)
          /\ UNCHANGED bucket
  /\ cleanup' = [cleanup EXCEPT !.at = "clear"]
  /\ UNCHANGED <<tick, row, drawer, asks, dropped, cutShort>>

CleanClear ==
  /\ cleanup.at = "clear"
  /\ row' = [row EXCEPT ![cleanup.of].image = "none"]
  /\ IF cleanup.left = {} THEN cleanup' = NoCleanup
     ELSE \E id \in cleanup.left :
            cleanup' = [at |-> "delete", of |-> id, left |-> cleanup.left \ {id}]
  /\ UNCHANGED <<tick, bucket, drawer, asks, imageHistory>>

CleanDies ==
  /\ cleanup.at # "idle"
  /\ cutShort' = IF cleanup.at = "clear" THEN cutShort \union {cleanup.of} ELSE cutShort
  /\ cleanup' = NoCleanup
  /\ UNCHANGED <<tick, rows, drawer, asks, undeleted, dropped>>

TickImages ==
  /\ tick < MaxTicks
  /\ tick' = tick + 1
  /\ UNCHANGED <<rows, drawer, asks, cleanup, imageHistory>>

DrawerStep(r) ==
  \/ \E ok \in BOOLEAN : UploadInput(r, ok) \/ StoreImage(r, ok)
  \/ \E edit \in BOOLEAN : ResolveInput(r, edit)
  \/ SaveRequest(r) \/ SaveDrawing(r) \/ FailDrawing(r)
  \/ \E models \in SUBSET ImageModel, ideal \in Ideals : ChooseModels(r, models, ideal)
  \/ \E balance \in Balances : Afford(r, balance)
  \/ \E reply \in Reply : CallModel(r, reply)

ImagesNext ==
  \/ \E r \in Drawer :
       \/ \E attached \in BOOLEAN : AskForImage(r, attached)
       \/ DrawerStep(r)
  \/ CleanSelect \/ (\E ok \in BOOLEAN : CleanDelete(ok)) \/ CleanClear \/ CleanDies
  \/ TickImages
-----------------------------------------------------------------------------
(* Every variable has its type. *)
ImagesTypeOK ==
  /\ tick \in ImageTimes /\ asks \in 0..MaxAsks
  /\ bucket \subseteq RowId
  /\ row \in [RowId -> [image : {"none", "inline", "key"}, at : -1..MaxTicks]]
  /\ \A r \in Drawer : drawer[r].ask \in 0..MaxAsks /\ Range(drawer[r].chain) \subseteq ImageModel
  /\ cleanup.left \subseteq RowId

(* What a conversation shows can be fetched: findOne hands out a link for every
   key of a row and getImage downloads it, so a key must not outlive its object,
   but for the moment between the deletion and the update, or a job that died
   in that moment. *)
Linked(id) == row[id].image = "key"
NoDeadLinks ==
  \A id \in RowId :
    Linked(id) => \/ id \in bucket
                  \/ cleanup.at = "clear" /\ cleanup.of = id
                  \/ id \in cutShort

(* The bucket does not fill up: an object belongs to a row or to a request about
   to save it, unless its deletion failed or its request did not get that far. *)
ObjectsAreAccountedFor ==
  \A id \in bucket :
    \/ Linked(id) \/ id \in undeleted \union dropped
    \/ \E r \in Drawer : \/ drawer[r].at = "save" /\ id = Own(r)
                         \/ drawer[r].at = "answer" /\ id = Answer(r)

(* An answer without text shows its image for a day, even when the upload failed:
   otherwise the message would be invisible (handleImageGeneration, persistedImage). *)
AnswersAreVisible ==
  \A id \in RowId :
    id[2] = "ASSISTANT" /\ row[id].at >= tick - ImageDay /\ row[id].at >= 0
      => row[id].image # "none"

(* Without a model of the user's or the plan's own, the model asked first is one
   that no affordable model of the plan matches better, and none is left out. *)
NearestModelFirst ==
  \A r \in Drawer :
    drawer[r].at \in {"afford", "input"} =>
      LET d == drawer[r]
      IN  /\ Range(d.chain) = d.models /\ Len(d.chain) = Cardinality(d.models)
          /\ d.ideal # <<>> =>
               \A m \in d.models : Score(m, d.ideal) =< Score(d.chain[1], d.ideal)

(* From the choice of a model to the cleanup, rows and objects stay together: no link is
   dead, no object is forgotten, no answer is invisible, and the nearest model draws. *)
PicturesAreKept ==
  /\ ImagesTypeOK
  /\ NoDeadLinks
  /\ ObjectsAreAccountedFor
  /\ AnswersAreVisible
  /\ NearestModelFirst
=============================================================================
