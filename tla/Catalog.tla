-------------------------------- MODULE Catalog --------------------------------
(***************************************************************************)
(* What creating products promises: an SKU belongs to one product for good *)
(* (a soft delete keeps the row); a creation that is answered 201 made the *)
(* product, and one answered 409 found the SKU taken by another.  A        *)
(* failure promises nothing.  ProductCatalog implements it.                *)
(***************************************************************************)
CONSTANTS
    Creations,      \* POST /products requests
    Skus,           \* the SKUs they may ask for
    NoProduct,      \* an SKU without a product
    OldProduct      \* one with a product of earlier

VARIABLES
    product,    \* whose product has each SKU
    sku,        \* what each request asks for
    answer      \* what each was answered: none, created or exists

vars == <<product, sku, answer>>

Init ==
    /\ product \in [Skus -> {NoProduct, OldProduct}]
    /\ sku \in [Creations -> Skus]
    /\ answer = [c \in Creations |-> "none"]

Create(c) ==
    /\ answer[c] = "none"
    /\ product[sku[c]] = NoProduct
    /\ product' = [product EXCEPT ![sku[c]] = c]
    /\ UNCHANGED <<sku, answer>>

Answer(c, a) ==
    /\ answer[c] = "none"
    /\ answer' = [answer EXCEPT ![c] = a]
    /\ UNCHANGED <<product, sku>>

AnswerCreated(c) == product[sku[c]] = c /\ Answer(c, "created")
AnswerExists(c) == product[sku[c]] \notin {NoProduct, c} /\ Answer(c, "exists")

Next == \E c \in Creations : Create(c) \/ AnswerCreated(c) \/ AnswerExists(c)

Spec == Init /\ [][Next]_vars
==============================================================================
