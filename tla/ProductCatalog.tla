--------------------------- MODULE ProductCatalog ----------------------------
(***************************************************************************)
(* The products of one business in the e-commerce plugin: their SKUs,      *)
(* prices and images.  ProductService reads a product without a lock and   *)
(* commits, of what it loaded, the columns it changed.                     *)
(***************************************************************************)
EXTENDS Naturals, FiniteSets

CONSTANTS Products, NoProduct, Skus, Images, Sessions,
          MaxPrice,  \* bound: prices are 1..MaxPrice
          MaxImages  \* MAX_PRODUCT_IMAGES

VARIABLES
    sku,        \* of each committed product, NoSku of the others
    price,      \* selling_price and original_price of each product
    rows,       \* the product of each committed image row
    files,      \* the image files on disk
    req,        \* each session's handler
    overlapped, \* products of which two handlers wrote at once
    left,       \* files of images before one that could not be saved
    cut         \* a process died with a file saved or a row deleted

vars == <<sku, price, rows, files, req, overlapped, left, cut>>

NoSku  == "no_sku"
Prices == 1..MaxPrice
Price  == [selling: Prices, original: Prices]
Idle   == [op |-> "idle", at |-> "idle", product |-> NoProduct, sku |-> NoSku, images |-> {},
           seen |-> [selling |-> 1, original |-> 1], write |-> [selling |-> 1, original |-> 1]]

TypeOK ==
    /\ sku \in [Products -> Skus \cup {NoSku}] /\ price \in [Products -> Price]
    /\ rows \in [Images -> Products \cup {NoProduct}] /\ files \subseteq Images
    /\ req \in [Sessions -> [op: {"idle", "create", "price", "add_image", "remove_image"},
                             at: {"idle", "save", "commit", "erase"},
                             product: Products \cup {NoProduct}, sku: Skus \cup {NoSku},
                             images: SUBSET Images, seen: Price, write: Price]]
    /\ overlapped \subseteq Products /\ left \subseteq Images /\ cut \in BOOLEAN

Init ==
    /\ sku = [p \in Products |-> NoSku] /\ price = [p \in Products |-> Idle.seen]
    /\ rows = [i \in Images |-> NoProduct] /\ files = {}
    /\ req = [s \in Sessions |-> Idle] /\ overlapped = {} /\ left = {} /\ cut = FALSE

Exists(p) == sku[p] # NoSku
Of(p)     == {i \in Images : rows[i] = p}
Taken(k)  == \E p \in Products : sku[p] = k
InUse(i)  == i \in files \/ rows[i] # NoProduct \/ \E s \in Sessions : i \in req[s].images

Begin(s, r) ==
    /\ req[s].op = "idle" /\ req' = [req EXCEPT ![s] = r]
    /\ overlapped' = overlapped \cup {p \in {r.product} : \E o \in Sessions : req[o].product = p}
    /\ UNCHANGED <<sku, price, rows, files, left, cut>>
End(s) == req' = [req EXCEPT ![s] = Idle]

\* create: the SKU looks free, and the images are not too many; a price without
\* an original one is its own.
Create(s, p, k, selling, original, images) ==
    /\ ~Exists(p) /\ \A o \in Sessions : req[o].product # p
    /\ ~Taken(k) /\ selling <= original
    /\ Cardinality(images) <= MaxImages /\ \A i \in images : ~InUse(i)
    /\ Begin(s, [Idle EXCEPT !.op = "create", !.at = "save", !.product = p, !.sku = k, !.images = images,
                             !.write = [selling |-> selling, original |-> original]])

\* save_plugin_image, for all of them before anything is written.
SaveFiles(s) ==
    /\ req[s].op \in {"create", "add_image"} /\ req[s].at = "save"
    /\ files' = files \cup req[s].images
    /\ req' = [req EXCEPT ![s].at = "commit"] /\ UNCHANGED <<sku, price, rows, overlapped, left, cut>>

\* An image that cannot be saved: those before it are not in stored_images yet,
\* and stay.
SaveFails(s) ==
    /\ req[s].op \in {"create", "add_image"} /\ req[s].at = "save" /\ End(s)
    /\ \E before \in (SUBSET req[s].images) \ {req[s].images} :
        files' = files \cup before /\ left' = left \cup before
    /\ UNCHANGED <<sku, price, rows, overlapped, cut>>

\* _commit_unique: another product has the SKU by now, or it is committed with
\* its images; what was saved for a product refused is deleted.
CommitProduct(s) ==
    LET r == req[s] IN
    /\ r.op = "create" /\ r.at = "commit" /\ End(s)
    /\ IF Taken(r.sku)
       THEN files' = files \ r.images /\ UNCHANGED <<sku, price, rows>>
       ELSE /\ sku' = [sku EXCEPT ![r.product] = r.sku]
            /\ price' = [price EXCEPT ![r.product] = r.write]
            /\ rows' = [i \in Images |-> IF i \in r.images THEN r.product ELSE rows[i]]
            /\ UNCHANGED files
    /\ UNCHANGED <<overlapped, left, cut>>

\* _apply_prices: the price that is not asked for is the one loaded.
ChangePrice(s, p, wanted) ==
    /\ Exists(p) /\ wanted # price[p] /\ wanted.selling <= wanted.original
    /\ Begin(s, [Idle EXCEPT !.op = "price", !.at = "commit", !.product = p, !.seen = price[p], !.write = wanted])

\* The UPDATE sets the columns that differ from what was loaded.
Written(old, seen, new) == IF new # seen THEN new ELSE old
CommitPrice(s) ==
    LET r == req[s]
        old == price[r.product] IN
    /\ r.op = "price" /\ End(s)
    /\ price' = [price EXCEPT ![r.product] =
           [selling  |-> Written(old.selling, r.seen.selling, r.write.selling),
            original |-> Written(old.original, r.seen.original, r.write.original)]]
    /\ UNCHANGED <<sku, rows, files, overlapped, left, cut>>

\* add_image: there is room for one more.
AddImage(s, p, i) ==
    /\ Exists(p) /\ ~InUse(i) /\ Cardinality(Of(p)) + 1 <= MaxImages
    /\ Begin(s, [Idle EXCEPT !.op = "add_image", !.at = "save", !.product = p, !.images = {i}])
CommitImage(s) ==
    LET r == req[s] IN
    /\ r.op = "add_image" /\ r.at = "commit" /\ End(s)
    /\ rows' = [i \in Images |-> IF i \in r.images THEN r.product ELSE rows[i]]
    /\ UNCHANGED <<sku, price, files, overlapped, left, cut>>

\* remove_image: the row is committed away first, then the file goes.
RemoveImage(s, i) ==
    /\ rows[i] # NoProduct
    /\ Begin(s, [Idle EXCEPT !.op = "remove_image", !.at = "commit", !.product = rows[i], !.images = {i}])
DeleteImage(s) ==
    LET r == req[s] IN
    /\ r.op = "remove_image" /\ r.at = "commit"
    /\ rows' = [i \in Images |-> IF i \in r.images THEN NoProduct ELSE rows[i]]
    /\ req' = [req EXCEPT ![s].at = "erase"] /\ UNCHANGED <<sku, price, files, overlapped, left, cut>>
DeleteFile(s) ==
    /\ req[s].at = "erase" /\ files' = files \ req[s].images
    /\ End(s) /\ UNCHANGED <<sku, price, rows, overlapped, left, cut>>

\* A statement or the commit fails: files saved are deleted.
Fail(s) ==
    /\ req[s].at = "commit" /\ End(s)
    /\ files' = IF req[s].op \in {"create", "add_image"} THEN files \ req[s].images ELSE files
    /\ UNCHANGED <<sku, price, rows, overlapped, left, cut>>
Crash(s) ==
    /\ req[s].op # "idle" /\ End(s)
    /\ cut' = (cut \/ req[s].images \cap files # {})
    /\ UNCHANGED <<sku, price, rows, files, overlapped, left>>

Next ==
    \E s \in Sessions :
        \/ \E p \in Products, k \in Skus, w \in Price, images \in SUBSET Images :
              Create(s, p, k, w.selling, w.original, images)
        \/ \E p \in Products, w \in Price : ChangePrice(s, p, w)
        \/ \E p \in Products, i \in Images : AddImage(s, p, i)
        \/ \E i \in Images : RemoveImage(s, i)
        \/ SaveFiles(s) \/ SaveFails(s) \/ CommitProduct(s) \/ CommitPrice(s) \/ CommitImage(s)
        \/ DeleteImage(s) \/ DeleteFile(s) \/ Fail(s) \/ Crash(s)

Spec == Init /\ [][Next]_vars

-----------------------------------------------------------------------------
(* No product costs more than its original price or has more images than   *)
(* allowed, unless two handlers wrote it at once; no two share a SKU.      *)
ProductsConsistent ==
    /\ \A p, q \in Products : Exists(p) /\ sku[p] = sku[q] => p = q
    /\ \A p \in Products \ overlapped : /\ price[p].selling <= price[p].original
                                        /\ Cardinality(Of(p)) <= MaxImages

(* Every image shown has its file; every file has its image, or a handler  *)
(* that is about to commit or erase it, unless a process died on the way   *)
(* or the file was saved for a product before another that could not be.   *)
ImagesHaveFiles ==
    /\ \A i \in Images : rows[i] # NoProduct => i \in files
    /\ cut \/ \A i \in files \ left : rows[i] # NoProduct \/ \E s \in Sessions : i \in req[s].images

\* The inductive invariant: a product being created is its session's alone, and so
\* are the images to be added; one that was not written twice is as it was read.
\* A file without a row is to get one, or to be erased.
CreatesAlone(s) ==
    /\ req[s].op = "idle" => req[s].product = NoProduct /\ req[s].images = {}
    /\ req[s].op # "idle" => /\ req[s].product \in Products
                             /\ Exists(req[s].product) <=> req[s].op # "create"
    /\ req[s].op = "create" =>
          /\ req[s].sku # NoSku /\ Cardinality(req[s].images) <= MaxImages
          /\ req[s].write.selling <= req[s].write.original
          /\ \A t \in Sessions \ {s} : req[t].product # req[s].product
ReadHolds(s) ==
    /\ req[s].op = "price" => req[s].at = "commit" /\ req[s].write.selling <= req[s].write.original
    /\ req[s].op # "idle" /\ req[s].product \notin overlapped =>
          /\ \A t \in Sessions \ {s} : req[t].product # req[s].product
          /\ req[s].op = "price" => req[s].seen = price[req[s].product]
          /\ req[s].op = "add_image" => Cardinality(Of(req[s].product)) < MaxImages
ImagesApart(s) ==
    /\ req[s].op = "add_image" => \E i \in Images : req[s].images = {i}
    /\ req[s].at = "erase" => req[s].op = "remove_image" /\ \A i \in req[s].images : rows[i] = NoProduct
    /\ req[s].op \in {"create", "add_image"} =>
          /\ \A i \in req[s].images : rows[i] = NoProduct
          /\ req[s].at = "save" => req[s].images \cap files = {}
          /\ req[s].at = "commit" => req[s].images \subseteq files
          /\ \A t \in Sessions \ {s} : req[s].images \cap req[t].images = {}
FilesKept ==
    /\ \A p \in Products : ~Exists(p) => Of(p) = {}
    /\ \A i \in Images : rows[i] # NoProduct => i \in files
    /\ cut \/ \A i \in files \ left : rows[i] # NoProduct \/
          \E s \in Sessions : i \in req[s].images /\ (req[s].op \in {"create", "add_image"} \/ req[s].at = "erase")

IInv ==
    /\ TypeOK /\ ProductsConsistent /\ FilesKept
    /\ \A s \in Sessions : CreatesAlone(s) /\ ReadHolds(s) /\ ImagesApart(s)
=============================================================================
