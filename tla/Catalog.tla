------------------------------- MODULE Catalog -------------------------------
(***************************************************************************)
(* Product content of one store (services/admin.py on PostgreSQL with a    *)
(* file store): an upload becomes a draft, a confirmed draft a product and *)
(* an asset, the asset's text a knowledge candidate, a reviewed candidate  *)
(* an entry that replies recall (services/repository.py).                  *)
(*                                                                         *)
(* A call is a record in edits.  An upload puts its file outside any       *)
(* transaction, a confirmation is three transactions, a review reads the   *)
(* candidate before it locks it; the other operations are one transaction. *)
(* Stores hold one product, one upload and its asset: what happens to two  *)
(* of them is independent.                                                 *)
(***************************************************************************)
EXTENDS Integers

CONSTANTS
  Editors,        \* the event loops of the replicas: a call blocks its own
  ConfirmKeys,
  ProductIds,     \* public ids that a product may be given
  NoProduct,
  TextBound       \* how many texts a run gives the candidate

ASSUME CatalogAssumption == NoProduct \notin ProductIds /\ TextBound \in Nat

VARIABLES
  products,   \* public ids of the product in the tables product and app_product
  draft,      \* product_import_draft of the upload's key
  file,       \* whether the file store holds the upload
  asset,      \* product_asset of the upload
  candidate,  \* product_knowledge_candidate of the asset
  entry,      \* knowledge_entry of the candidate
  texts,      \* how many texts there have been, of markdown or of reviews
  priced,     \* whether product_price_snapshot has a row
  edits       \* the call of each thread

catalogVars == << products, draft, file, asset, candidate, entry, texts, priced, edits >>

NoEdit == [op |-> "none"]

CatalogInit ==
  /\ products = [canonical |-> NoProduct, app |-> NoProduct]
  /\ draft = [status |-> "absent", confirmedBy |-> "none"]
  /\ file = FALSE
  /\ asset = [known |-> FALSE, product |-> NoProduct]
  /\ candidate = [status |-> "absent", text |-> 0]
  /\ entry = [status |-> "absent", text |-> 0]
  /\ texts = 0
  /\ priced = FALSE
  /\ edits = [c \in Editors |-> NoEdit]

Edits(c, call) == edits' = [edits EXCEPT ![c] = call]

------------------------------------------------------------------------------
\* Variant: the runtime's table is forgotten.
UpsertedOnce(id) == [canonical |-> id, app |-> products.app]

\* product takes the public id of the latest upsert, app_product keeps its first;
\* the caller is answered with the latter.
Upserted(id) ==
  [canonical |-> id, app |-> IF products.app = NoProduct THEN id ELSE products.app]

UpsertProduct ==
  /\ \E id \in ProductIds : products' = Upserted(id)
  /\ UNCHANGED << draft, file, asset, candidate, entry, texts, priced, edits >>

CreatePriceSnapshot ==
  /\ priced' = TRUE
  /\ UNCHANGED << products, draft, file, asset, candidate, entry, texts, edits >>

------------------------------------------------------------------------------
\* An upload whose key has no draft puts its file, under a name that the key
\* determines, before it inserts the draft.
CreateDraft(c) ==
  /\ edits[c] = NoEdit
  /\ draft.status = "absent"
  /\ file' = TRUE
  /\ Edits(c, [op |-> "upload"])
  /\ UNCHANGED << products, draft, asset, candidate, entry, texts, priced >>

\* The insert, which finds the draft of an upload that overtook it; its failure
\* deletes the file, whoever put it.
SaveDraft(c) ==
  /\ edits[c].op = "upload"
  /\ \/ /\ draft' = IF draft.status = "absent" THEN [draft EXCEPT !.status = "draft"] ELSE draft
        /\ UNCHANGED file
     \/ file' = FALSE /\ UNCHANGED draft
  /\ Edits(c, NoEdit)
  /\ UNCHANGED << products, asset, candidate, entry, texts, priced >>

------------------------------------------------------------------------------
Confirmation(step, key, id) == [op |-> "confirm", step |-> step, key |-> key, id |-> id]

\* A confirmation under the key that confirmed last is answered from the draft,
\* any other runs, whatever the draft's status.
ConfirmDraft(c) ==
  /\ edits[c] = NoEdit
  /\ draft.status /= "absent"
  /\ \E key \in ConfirmKeys, id \in ProductIds :
       /\ draft.confirmedBy /= key
       /\ Edits(c, Confirmation("product", key, id))
  /\ UNCHANGED << products, draft, file, asset, candidate, entry, texts, priced >>

\* Variant: the draft is marked before the asset is there.
ConfirmBeforeAsset(c) ==
  /\ edits[c].op = "confirm" /\ edits[c].step = "product"
  /\ products' = Upserted(edits[c].id)
  /\ Edits(c, [edits[c] EXCEPT !.step = "draft"])
  /\ UNCHANGED << draft, file, asset, candidate, entry, texts, priced >>

ConfirmProduct(c) ==
  /\ edits[c].op = "confirm" /\ edits[c].step = "product"
  /\ products' = Upserted(edits[c].id)
  /\ Edits(c, Confirmation("asset", edits[c].key, products'.app))
  /\ UNCHANGED << draft, file, asset, candidate, entry, texts, priced >>

\* create_asset looks the product up by the id it was given, and leaves the link
\* empty when no row of product has that id; an asset that is there keeps its own.
LinkedTo(id) == IF products.canonical = id THEN id ELSE NoProduct

CreateAsset(id) ==
  asset' = IF asset.known THEN asset ELSE [known |-> TRUE, product |-> LinkedTo(id)]

\* The page's own upload of an asset: of any product, known or not.  (The file
\* that it puts is the asset's, not the draft's, and nothing here reads it.)
AddAsset ==
  /\ \E id \in ProductIds \cup {NoProduct} : CreateAsset(id)
  /\ UNCHANGED << products, draft, file, candidate, entry, texts, priced, edits >>

ConfirmAsset(c) ==
  /\ edits[c].op = "confirm" /\ edits[c].step = "asset"
  /\ CreateAsset(edits[c].id)
  /\ Edits(c, [edits[c] EXCEPT !.step = "draft"])
  /\ UNCHANGED << products, draft, file, candidate, entry, texts, priced >>

ConfirmStatus(c) ==
  /\ edits[c].op = "confirm" /\ edits[c].step = "draft"
  /\ draft' = [status |-> "confirmed", confirmedBy |-> edits[c].key]
  /\ Edits(c, NoEdit)
  /\ UNCHANGED << products, file, asset, candidate, entry, texts, priced >>

------------------------------------------------------------------------------
\* The asset's text becomes the candidate's, which awaits a review again; the
\* entry of the last one stays approved, with the text it had.
CreateMarkdown ==
  /\ asset.known
  /\ texts < TextBound
  /\ texts' = texts + 1
  /\ candidate' = [status |-> "pending", text |-> texts + 1]
  /\ UNCHANGED << products, draft, file, asset, entry, priced, edits >>

\* A review brings its own text, a new one, or takes the candidate's, which it
\* reads first: the empty one, where there is no candidate yet.
ReviewCandidate(c) ==
  /\ edits[c] = NoEdit
  /\ \E accepted, own \in BOOLEAN :
       /\ own => texts < TextBound
       /\ texts' = IF own THEN texts + 1 ELSE texts
       /\ Edits(c, [op |-> "review", accepted |-> accepted,
                    text |-> IF own THEN texts + 1 ELSE candidate.text])
  /\ UNCHANGED << products, draft, file, asset, candidate, entry, priced >>

\* Candidate (inserted, if there is none), entry and embedding are then written
\* in one transaction, which holds the candidate's row from its first statement on.
SaveReview(c) ==
  /\ edits[c].op = "review"
  /\ LET review == edits[c] IN
       /\ candidate' = [text |-> review.text,
                        status |-> IF review.accepted THEN "accepted" ELSE "rejected"]
       /\ entry' = IF review.accepted THEN [status |-> "approved", text |-> review.text]
                   ELSE IF entry.status = "absent" THEN entry
                   ELSE [entry EXCEPT !.status = "disabled"]
  /\ Edits(c, NoEdit)
  /\ UNCHANGED << products, draft, file, asset, texts, priced >>

\* The replica or its connection is lost between two transactions.
LoseEdit(c) ==
  /\ edits[c] /= NoEdit
  /\ Edits(c, NoEdit)
  /\ UNCHANGED << products, draft, file, asset, candidate, entry, texts, priced >>

CatalogNext ==
  \/ UpsertProduct \/ CreatePriceSnapshot \/ AddAsset \/ CreateMarkdown
  \/ \E c \in Editors :
       \/ CreateDraft(c) \/ SaveDraft(c)
       \/ ConfirmDraft(c) \/ ConfirmProduct(c) \/ ConfirmAsset(c) \/ ConfirmStatus(c)
       \/ ReviewCandidate(c) \/ SaveReview(c) \/ LoseEdit(c)

CatalogSpec == CatalogInit /\ [][CatalogNext]_catalogVars

------------------------------------------------------------------------------
\* Variant: the entry alone decides.
RecalledEntry == entry.status = "approved"

\* What replies recall: an approved entry whose candidate is still accepted.
Recalled == entry.status = "approved" /\ candidate.status = "accepted"

\* The readiness of an active store with an integration, as its page shows it,
\* and whether the dashboard counts it as blocked: two statements of their own.
ReadinessStatus ==
  IF products.canonical /= NoProduct /\ priced /\ entry.status = "approved" THEN "ready"
  ELSE IF products.canonical /= NoProduct THEN "warning" ELSE "blocked"

ReadinessBlocker ==
  products.canonical = NoProduct \/ ~priced \/ entry.status /= "approved"

\* Types of the rows and of the calls' records.
CatalogTypeOK ==
  /\ products \in [canonical : ProductIds \cup {NoProduct}, app : ProductIds \cup {NoProduct}]
  /\ draft \in [status : {"absent", "draft", "confirmed"}, confirmedBy : ConfirmKeys \cup {"none"}]
  /\ asset \in [known : BOOLEAN, product : ProductIds \cup {NoProduct}]
  /\ candidate \in [status : {"absent", "pending", "accepted", "rejected"}, text : Nat]
  /\ entry \in [status : {"absent", "approved", "disabled"}, text : Nat]
  /\ file \in BOOLEAN /\ priced \in BOOLEAN /\ texts \in Nat
  /\ edits \in [Editors ->
       {NoEdit} \cup [op : {"upload"}]
         \cup [op : {"confirm"}, step : {"product", "asset", "draft"}, key : ConfirmKeys,
               id : ProductIds]
         \cup [op : {"review"}, accepted : BOOLEAN, text : Nat]]

\* A reply recalls only what the candidate says and a review accepted, although
\* a new text leaves the entry of the old one approved.
RecallIsReviewed == Recalled => entry.text = candidate.text

\* A confirmed draft has its product and its asset, at whatever step of which
\* confirmation a replica is lost.
ConfirmedIsComplete ==
  draft.status = "confirmed" =>
    asset.known /\ products.canonical /= NoProduct /\ products.app /= NoProduct

\* The two tables have a product together.
TablesAgree == products.canonical = NoProduct <=> products.app = NoProduct

\* The dashboard's count of blocked stores agrees with the readiness page.
DashboardAgrees == ReadinessBlocker <=> ReadinessStatus /= "ready"
=============================================================================
