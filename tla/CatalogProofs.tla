---------------------------- MODULE CatalogProofs ----------------------------
(***************************************************************************)
(* Proofs about Catalog, for any sets of ids, names and requests.          *)
(*                                                                         *)
(* IInv says besides the properties what a request knows: a form that      *)
(* nobody overtook was made from the row that is still there (Fresh), and  *)
(* no two lines of a file have one key (Apart).                            *)
(***************************************************************************)
EXTENDS Catalog, TLAPS

\* What a form shows of the row it was made from: all that it can offer.
ShownFrom(shown, row) ==
    /\ shown.name = row.name /\ shown.edition = row.edition
    /\ shown.vendor \in {row.vendor, New}
    /\ row.type \in WebType => shown.type = row.type
    /\ row.default \in WebDefault => shown.default = row.default

\* With rows for product, a form still shows its product unless it is stale.
Fresh(r, rows) ==
    r.pc \in {"form", "update"} =>
        /\ rows[r.product] # New
        /\ ~r.stale => rows[r.product] \in {r.read, Gone}
        /\ ShownFrom(r.shown, r.read)

\* The lines of a validated file have keys of their own.
Apart(r) ==
    /\ r.pc = "products" => \A x, y \in r.lines : SameKey(x, y) => x = y
    /\ r.pc = "aliases" => \A x, y \in r.lines : x.alias = y.alias => x = y

Knows(r, rows) == r \in Progress /\ Apart(r) /\ Fresh(r, rows)

IInv ==
    /\ TypeOK
    /\ ReferencesHold
    /\ KeysOnce
    /\ \A q \in Request : Knows(req[q], product)

-----------------------------------------------------------------------------
(* Types of the parts                                                      *)

Showing   == [pc : {"form"}, product : Product, read : ProductRow, shown : Form,
              stale : BOOLEAN]
Updating  == [pc : {"update"}, product : Product, read : ProductRow, shown : Form,
              posted : Form, stale : BOOLEAN]
Creating  == [pc : {"create"}, posted : Form]
Deleting  == [pc : {"delete"}, vendor : Vendor]
Aliasing  == [pc : {"alias"}, row : AliasRow]
Licensing == [pc : {"license"}, product : Product]
VendorFile  == [pc : {"vendors"}, lines : SUBSET VendorLine]
ProductFile == [pc : {"products"}, lines : SUBSET ProductLine]
AliasFile   == [pc : {"aliases"}, lines : SUBSET AliasLine]

\* The kinds of progress, by name.
LEMMA Kinds ==
    Progress = {Idle} \cup Showing \cup Updating \cup Creating \cup Deleting
                      \cup Aliasing \cup Licensing \cup VendorFile \cup ProductFile
                      \cup AliasFile
BY DEF Progress, Showing, Updating, Creating, Deleting, Aliasing, Licensing,
       VendorFile, ProductFile, AliasFile

\* What pc says about the kind.
LEMMA KindOf ==
    ASSUME NEW r \in Progress
    PROVE  /\ r.pc = "idle"     => r = Idle
           /\ r.pc = "form"     => r \in Showing
           /\ r.pc = "update"   => r \in Updating
           /\ r.pc = "create"   => r \in Creating
           /\ r.pc = "delete"   => r \in Deleting
           /\ r.pc = "alias"    => r \in Aliasing
           /\ r.pc = "license"  => r \in Licensing
           /\ r.pc = "vendors"  => r \in VendorFile
           /\ r.pc = "products" => r \in ProductFile
           /\ r.pc = "aliases"  => r \in AliasFile
<1>1. Idle.pc = "idle"
  BY DEF Idle
<1>2. /\ \A i \in Showing : i.pc = "form"
      /\ \A i \in Updating : i.pc = "update"
      /\ \A i \in Creating : i.pc = "create"
  BY DEF Showing, Updating, Creating
<1>3. /\ \A i \in Deleting : i.pc = "delete"
      /\ \A i \in Aliasing : i.pc = "alias"
      /\ \A i \in Licensing : i.pc = "license"
  BY DEF Deleting, Aliasing, Licensing
<1>4. /\ \A i \in VendorFile : i.pc = "vendors"
      /\ \A i \in ProductFile : i.pc = "products"
      /\ \A i \in AliasFile : i.pc = "aliases"
  BY DEF VendorFile, ProductFile, AliasFile
<1>5. QED
  BY Kinds, <1>1, <1>2, <1>3, <1>4

\* An idle request knows nothing.
LEMMA IdleKnows == \A rows : Knows(Idle, rows)
BY Kinds DEF Knows, Apart, Fresh, Idle

\* r with its form out of date.
Stale(r) == [r EXCEPT !.stale = TRUE]

\* It is of the same kind, and knows what a stale form knows.
LEMMA StaleKnows ==
    ASSUME NEW r \in Progress, r.pc \in {"form", "update"}, NEW rows, Knows(r, rows),
           NEW others, others[r.product] # New
    PROVE  Knows(Stale(r), others)
<1>1. CASE r.pc = "form"
  <2>1. r \in Showing
    BY <1>1, KindOf
  <2>2. Stale(r) \in Showing /\ Stale(r).pc = "form" /\ Stale(r).stale
        /\ Stale(r).product = r.product /\ Stale(r).shown = r.shown /\ Stale(r).read = r.read
    BY <2>1 DEF Showing, Stale
  <2>3. QED
    BY <1>1, <2>2, Kinds DEF Knows, Apart, Fresh
<1>2. CASE r.pc = "update"
  <2>1. r \in Updating
    BY <1>2, KindOf
  <2>2. Stale(r) \in Updating /\ Stale(r).pc = "update" /\ Stale(r).stale
        /\ Stale(r).product = r.product /\ Stale(r).shown = r.shown /\ Stale(r).read = r.read
    BY <2>1 DEF Updating, Stale
  <2>3. QED
    BY <1>2, <2>2, Kinds DEF Knows, Apart, Fresh
<1>3. QED
  BY <1>1, <1>2

\* Rows that come, or go for good, leave every form what it was.
LEMMA KnowsStill ==
    ASSUME NEW r, NEW rows, Knows(r, rows), NEW others,
           \A p \in Product : rows[p] # New => others[p] = rows[p] \/ others[p] = Gone
    PROVE  Knows(r, others)
<1>1. New # Gone
  BY CatalogAssumption
<1>2. ASSUME r.pc \in {"form", "update"}
      PROVE  r.product \in Product
  <2>1. r \in Showing \/ r \in Updating
    BY <1>2, KindOf DEF Knows
  <2>2. QED
    BY <2>1 DEF Showing, Updating
<1>3. QED
  BY <1>1, <1>2 DEF Knows, Fresh

\* One request changes, and the rows only by new or deleted ones.
LEMMA RequestStep ==
    ASSUME IInv, NEW q \in Request, NEW r, req' = [req EXCEPT ![q] = r],
           Knows(r, product'),
           \A p \in Product : product[p] # New => product'[p] = product[p] \/ product'[p] = Gone
    PROVE  /\ req' \in [Request -> Progress]
           /\ \A o \in Request : Knows(req'[o], product')
<1>1. req \in [Request -> Progress] /\ r \in Progress
  BY DEF IInv, TypeOK, Knows
<1>2. ASSUME NEW o \in Request PROVE Knows(req'[o], product')
  <2>1. CASE o = q
    BY <1>1, <2>1
  <2>2. CASE o # q
    <3>1. req'[o] = req[o] /\ Knows(req[o], product)
      BY <1>1, <2>2 DEF IInv
    <3>2. QED
      BY <3>1, KnowsStill
  <2>3. QED
    BY <2>1, <2>2
<1>3. QED
  BY <1>1, <1>2

\* No request changes.
LEMMA RequestsStay ==
    ASSUME IInv, req' = req,
           \A p \in Product : product[p] # New => product'[p] = product[p] \/ product'[p] = Gone
    PROVE  /\ req' \in [Request -> Progress]
           /\ \A o \in Request : Knows(req'[o], product')
BY KnowsStill DEF IInv, TypeOK

\* A request begins.
LEMMA BeginStep ==
    ASSUME IInv, NEW q \in Request, NEW r, Begin(q, r), Knows(r, product),
           UNCHANGED <<vendor, product, alias, license, recorded>>
    PROVE  IInv'
<1>1. /\ req' \in [Request -> Progress]
      /\ \A o \in Request : Knows(req'[o], product')
  BY RequestStep DEF Begin
<1>2. started' \in 0 .. MaxRequests
  BY CatalogAssumption DEF Begin, IInv, TypeOK
<1>3. TypeOK'
  BY <1>1, <1>2 DEF IInv, TypeOK
<1>4. ReferencesHold' /\ KeysOnce'
  BY DEF IInv, ReferencesHold, KeysOnce, Vendors, Products, Aliases, Licenses, Clash
<1>5. QED
  BY <1>1, <1>3, <1>4 DEF IInv

\* A request ends.
LEMMA FinishStep ==
    ASSUME IInv, NEW q \in Request, Finish(q),
           \A p \in Product : product[p] # New => product'[p] = product[p] \/ product'[p] = Gone
    PROVE  /\ req' \in [Request -> Progress]
           /\ \A o \in Request : Knows(req'[o], product')
BY IdleKnows, RequestStep DEF Finish

\* Rows are no marks.
LEMMA Marks ==
    /\ \A x \in VendorName : x \notin {New, Gone}
    /\ \A x \in ProductRow : x \notin {New, Gone}
    /\ \A x \in AliasRow : x \notin {New, Gone}
    /\ \A x \in Product : x \notin {New, Gone}
    /\ \A x \in Vendor : x \notin {New, Gone}
    /\ New # Gone
BY CatalogAssumption

\* The rows of each table.
LEMMA RowTypes ==
    ASSUME TypeOK
    PROVE  /\ \A v \in Vendor : v \in Vendors <=> vendor[v] \in VendorName
           /\ \A p \in Product : p \in Products <=> product[p] \in ProductRow
           /\ \A a \in Alias : a \in Aliases <=> alias[a] \in AliasRow
           /\ \A l \in License : l \in Licenses <=> license[l] \in Product
BY Marks DEF TypeOK, Vendors, Products, Aliases, Licenses

-----------------------------------------------------------------------------
LEMMA InitInv == Init => IInv
<1> SUFFICES ASSUME Init PROVE IInv
  OBVIOUS
<1>1. Idle \in Progress
  BY Kinds
<1>2. TypeOK
  BY <1>1, CatalogAssumption DEF Init, TypeOK
<1>3. Vendors = {} /\ Products = {} /\ Aliases = {} /\ Licenses = {}
  BY DEF Init, Vendors, Products, Aliases, Licenses
<1>4. ReferencesHold /\ KeysOnce
  BY <1>3 DEF ReferencesHold, KeysOnce
<1>5. \A q \in Request : Knows(req[q], product)
  BY IdleKnows DEF Init
<1>6. QED
  BY <1>2, <1>4, <1>5 DEF IInv

\* A vendor gets a name that no other has.
LEMMA NameStep ==
    ASSUME IInv, NEW v \in Vendor, NEW name \in VendorName,
           NameFree(name, Vendors \ {v}), vendor' = [vendor EXCEPT ![v] = name],
           UNCHANGED <<product, alias, license, req, started, recorded>>
    PROVE  IInv'
<1>1. TypeOK'
  BY DEF IInv, TypeOK
<1>2. Vendors' = Vendors \cup {v}
  BY Marks DEF IInv, TypeOK, Vendors
<1>3. ReferencesHold'
  BY <1>2 DEF IInv, ReferencesHold, Products, Aliases, Licenses
<1>4. \A w \in Vendors' : vendor'[w] = IF w = v THEN name ELSE vendor[w]
  BY DEF IInv, TypeOK, Vendors
<1>5. \A w, u \in Vendors' : vendor'[w] = vendor'[u] => w = u
  BY <1>2, <1>4 DEF IInv, KeysOnce, NameFree
<1>6. KeysOnce'
  BY <1>5 DEF IInv, KeysOnce, Products, Aliases, Clash
<1>7. \A o \in Request : Knows(req'[o], product')
  BY DEF IInv
<1>8. QED
  BY <1>1, <1>3, <1>6, <1>7 DEF IInv

LEMMA VendorInv ==
    ASSUME IInv, NEW v \in Vendor, NEW name \in VendorName,
           CreateVendor(v, name) \/ UpdateVendor(v, name)
    PROVE  IInv'
<1>1. CASE CreateVendor(v, name)
  BY <1>1, NameStep DEF CreateVendor, NameFree
<1>2. CASE UpdateVendor(v, name)
  BY <1>2, NameStep DEF UpdateVendor
<1>3. QED
  BY <1>1, <1>2

LEMMA CountInv ==
    ASSUME IInv, NEW q \in Request, CountProductsByVendor(q)
    PROVE  IInv'
<1>1. PICK v \in Vendors : /\ Begin(q, [pc |-> "delete", vendor |-> v])
                           /\ UNCHANGED <<vendor, product, alias, license, recorded>>
  BY DEF CountProductsByVendor
<1>2. [pc |-> "delete", vendor |-> v] \in Deleting
  BY DEF Vendors, Deleting
<1>3. Knows([pc |-> "delete", vendor |-> v], product)
  BY <1>2, Kinds DEF Knows, Apart, Fresh
<1>4. QED
  BY <1>1, <1>3, BeginStep

LEMMA DeleteVendorInv ==
    ASSUME IInv, NEW q \in Request, DeleteVendor(q)
    PROVE  IInv'
<1> DEFINE v == req[q].vendor
<1>1. v \in Vendor
  BY KindOf DEF DeleteVendor, IInv, TypeOK, Deleting
<1>2. vendor' = [vendor EXCEPT ![v] = Gone]
      /\ UNCHANGED <<product, alias, license, started, recorded>>
  BY DEF DeleteVendor
<1>3. /\ req' \in [Request -> Progress]
      /\ \A o \in Request : Knows(req'[o], product')
  BY <1>2, FinishStep DEF DeleteVendor
<1>4. TypeOK'
  BY <1>2, <1>3 DEF IInv, TypeOK
<1>5. Vendors' = Vendors \ {v} /\ \A w \in Vendors' : vendor'[w] = vendor[w]
  BY <1>1, <1>2 DEF IInv, TypeOK, Vendors
<1>6. ReferencesHold'
  BY <1>2, <1>5 DEF IInv, ReferencesHold, DeleteVendor, Products, Aliases, Licenses
<1>7. KeysOnce'
  BY <1>2, <1>5 DEF IInv, KeysOnce, Products, Aliases, Clash
<1>8. QED
  BY <1>3, <1>4, <1>6, <1>7 DEF IInv

-----------------------------------------------------------------------------
(* Products                                                                *)

\* A form shows what it can offer of its row.
LEMMA ShownWell ==
    ASSUME NEW row \in ProductRow
    PROVE  Shown(row) \in Form /\ ShownFrom(Shown(row), row)
<1>1. /\ Shown(row).vendor \in {row.vendor, New}
      /\ Shown(row).name = row.name /\ Shown(row).edition = row.edition
      /\ Shown(row).type = Option(row.type, WebType, FirstType)
      /\ Shown(row).default = Option(row.default, WebDefault, FirstDefault)
  BY DEF Shown, ShownVendor
<1>2. Option(row.type, WebType, FirstType) \in WebType
      /\ Option(row.default, WebDefault, FirstDefault) \in WebDefault
  BY CatalogAssumption DEF Option
<1>3. ShownVendor(row.vendor) \in Vendor \cup {New}
  BY DEF ShownVendor, ProductRow
<1>4. Shown(row) \in Form
  BY <1>2, <1>3 DEF Shown, Form, ProductRow
<1>5. QED
  BY <1>1, <1>4 DEF ShownFrom, Option

LEMMA EditInv ==
    ASSUME IInv, NEW q \in Request, EditProduct(q)
    PROVE  IInv'
<1>1. PICK p \in Products :
         /\ Begin(q, [pc |-> "form", product |-> p, read |-> product[p],
                      shown |-> Shown(product[p]), stale |-> FALSE])
         /\ UNCHANGED <<vendor, product, alias, license, recorded>>
  BY DEF EditProduct
<1> DEFINE r == [pc |-> "form", product |-> p, read |-> product[p],
                 shown |-> Shown(product[p]), stale |-> FALSE]
<1>2. p \in Product /\ product[p] \in ProductRow /\ product[p] # New
  BY RowTypes, Marks DEF IInv, Products
<1>3. r \in Showing
  BY <1>2, ShownWell DEF Showing
<1>4. Knows(r, product)
  BY <1>2, <1>3, Kinds, ShownWell DEF Knows, Apart, Fresh
<1>5. QED
  BY <1>1, <1>4, BeginStep

LEMMA PostUpdateInv ==
    ASSUME IInv, NEW q \in Request, PostUpdate(q)
    PROVE  IInv'
<1>1. PICK form \in Form : req' = [req EXCEPT ![q] =
                     [pc |-> "update", product |-> req[q].product, read |-> req[q].read,
                      shown |-> req[q].shown, posted |-> form, stale |-> req[q].stale]]
  BY DEF PostUpdate
<1> DEFINE r == [pc |-> "update", product |-> req[q].product, read |-> req[q].read,
                 shown |-> req[q].shown, posted |-> form, stale |-> req[q].stale]
<1>2. req[q].pc = "form" /\ UNCHANGED <<vendor, product, alias, license, started, recorded>>
  BY DEF PostUpdate
<1>3. req[q] \in Showing
  BY <1>2, KindOf DEF IInv, TypeOK
<1>4. r \in Updating
  BY <1>3 DEF Showing, Updating
<1>5. Knows(r, product)
  BY <1>2, <1>4, Kinds DEF IInv, Knows, Apart, Fresh
<1>6. /\ req' \in [Request -> Progress]
      /\ \A o \in Request : Knows(req'[o], product')
  BY <1>1, <1>2, <1>5, RequestStep
<1>7. TypeOK'
  BY <1>2, <1>6 DEF IInv, TypeOK
<1>8. ReferencesHold' /\ KeysOnce'
  BY <1>2 DEF IInv, ReferencesHold, KeysOnce, Vendors, Products, Aliases, Licenses, Clash
<1>9. QED
  BY <1>6, <1>7, <1>8 DEF IInv

LEMMA PostCreateInv ==
    ASSUME IInv, NEW q \in Request, PostCreate(q)
    PROVE  IInv'
<1>1. PICK form \in Form : /\ Begin(q, [pc |-> "create", posted |-> form])
                           /\ UNCHANGED <<vendor, product, alias, license, recorded>>
  BY DEF PostCreate
<1>2. [pc |-> "create", posted |-> form] \in Creating
  BY DEF Creating
<1>3. Knows([pc |-> "create", posted |-> form], product)
  BY <1>2, Kinds DEF Knows, Apart, Fresh
<1>4. QED
  BY <1>1, <1>3, BeginStep

\* A form that has a vendor is a row.
LEMMA FormIsRow ==
    ASSUME NEW form \in Form, form.vendor \in Vendors
    PROVE  form \in ProductRow
BY DEF Form, ProductRow, Vendors, Type, Default

\* Rows of products change, none goes, and the keys stay apart.
LEMMA ProductRows ==
    ASSUME IInv, UNCHANGED <<vendor, alias, license>>, Products \subseteq Products',
           \A p \in Products' : product'[p].vendor \in Vendors,
           \A p, o \in Products' : Clash(product'[p], product'[o]) => p = o
    PROVE  ReferencesHold' /\ KeysOnce'
BY DEF IInv, ReferencesHold, KeysOnce, Vendors, Aliases, Licenses

\* The keys stay apart when one row is written whose key no other has.
LEMMA OneRow ==
    ASSUME IInv, NEW p \in Product, NEW row \in ProductRow,
           row.vendor \in Vendors, product' = [product EXCEPT ![p] = row],
           \A o \in Products \ {p} : ~Clash(row, product[o])
    PROVE  /\ product' \in [Product -> ProductRow \cup {New, Gone}]
           /\ Products' = Products \cup {p}
           /\ \A o \in Products' : product'[o].vendor \in Vendors
           /\ \A o, n \in Products' : Clash(product'[o], product'[n]) => o = n
<1>1. /\ product' \in [Product -> ProductRow \cup {New, Gone}]
      /\ product'[p] = row /\ \A o \in Product \ {p} : product'[o] = product[o]
  BY DEF IInv, TypeOK
<1>2. Products' = Products \cup {p}
  BY <1>1, Marks DEF Products
<1>3. \A o \in Products' : product'[o].vendor \in Vendors
  BY <1>1, <1>2 DEF IInv, ReferencesHold, Products
<1>4. ASSUME NEW o \in Products', NEW n \in Products', Clash(product'[o], product'[n])
      PROVE  o = n
  <2>1. CASE o = p
    BY <1>1, <1>2, <1>4, <2>1 DEF Products
  <2>2. CASE n = p
    BY <1>1, <1>2, <1>4, <2>2 DEF Products, Clash
  <2>3. CASE o # p /\ n # p
    BY <1>1, <1>2, <1>4, <2>3 DEF IInv, KeysOnce, Products
  <2>4. QED
    BY <2>1, <2>2, <2>3
<1>5. QED
  BY <1>1, <1>2, <1>3, <1>4

LEMMA CreateProductInv ==
    ASSUME IInv, NEW q \in Request, CreateProduct(q)
    PROVE  IInv'
<1>1. PICK p \in Product :
        /\ req[q].pc = "create"
        /\ product[p] = New
        /\ req[q].posted.vendor \in Vendors
        /\ \A o \in Products : ~Clash(req[q].posted, product[o])
        /\ product' = [product EXCEPT ![p] = req[q].posted]
        /\ Finish(q)
        /\ UNCHANGED <<vendor, alias, license, started, recorded>>
  BY DEF CreateProduct
<1>2. req[q].posted \in ProductRow
  BY <1>1, KindOf, FormIsRow DEF IInv, TypeOK, Creating
<1>3. /\ product' \in [Product -> ProductRow \cup {New, Gone}]
      /\ Products' = Products \cup {p}
      /\ \A o \in Products' : product'[o].vendor \in Vendors
      /\ \A o, n \in Products' : Clash(product'[o], product'[n]) => o = n
  BY <1>1, <1>2, OneRow
<1>4. \A o \in Product : product[o] # New => product'[o] = product[o]
  BY <1>1 DEF IInv, TypeOK
<1>5. /\ req' \in [Request -> Progress]
      /\ \A o \in Request : Knows(req'[o], product')
  BY <1>1, <1>4, FinishStep
<1>6. TypeOK'
  BY <1>1, <1>3, <1>5 DEF IInv, TypeOK
<1>7. ReferencesHold' /\ KeysOnce'
  BY <1>1, <1>3, ProductRows
<1>8. QED
  BY <1>5, <1>6, <1>7 DEF IInv

\* The forms of p are stale after its row is written.
LEMMA StaleStep ==
    ASSUME IInv, NEW p \in Product, NEW q,
           product[p] # New, product'[p] # New,
           \A o \in Product \ {p} : product'[o] = product[o],
           req' = [r \in Request |->
                     IF r = q THEN Idle
                     ELSE IF req[r].pc \in {"form", "update"} /\ req[r].product = p
                          THEN Stale(req[r]) ELSE req[r]]
    PROVE  /\ req' \in [Request -> Progress]
           /\ \A o \in Request : Knows(req'[o], product')
<1>1. ASSUME NEW o \in Request
      PROVE  Knows(req'[o], product')
  <2>1. Knows(req[o], product)
    BY DEF IInv
  <2>2. CASE o = q
    BY <2>2, IdleKnows
  <2>3. CASE o # q /\ req[o].pc \in {"form", "update"} /\ req[o].product = p
    BY <2>1, <2>3, StaleKnows DEF Knows
  <2>4. CASE o # q /\ ~(req[o].pc \in {"form", "update"} /\ req[o].product = p)
    <3>1. req'[o] = req[o]
      BY <2>4
    <3>2. ASSUME req[o].pc \in {"form", "update"}
          PROVE  req[o].product \in Product \ {p}
      BY <2>1, <2>4, <3>2, KindOf DEF Knows, Showing, Updating
    <3>3. QED
      BY <2>1, <3>1, <3>2 DEF Knows, Fresh
  <2>5. QED
    BY <2>2, <2>3, <2>4
<1>2. QED
  BY <1>1 DEF Knows

LEMMA UpdateProductInv ==
    ASSUME IInv, NEW q \in Request, UpdateProduct(q)
    PROVE  IInv'
<1>0. PICK p, row : p = req[q].product /\ row = req[q].posted
  OBVIOUS
<1>1. /\ req[q].pc = "update" /\ p \in Products /\ row.vendor \in Vendors
      /\ \A o \in Products \ {p} : ~Clash(row, product[o])
      /\ product' = [product EXCEPT ![p] = row]
      /\ FinishWriting(q, p)
      /\ UNCHANGED <<vendor, alias, license, started, recorded>>
  BY <1>0 DEF UpdateProduct
<1>2. req[q] \in Updating
  BY <1>1, KindOf DEF IInv, TypeOK
<1>3. row \in ProductRow /\ p \in Product
  BY <1>0, <1>1, <1>2, FormIsRow DEF Updating
<1>4. /\ product' \in [Product -> ProductRow \cup {New, Gone}]
      /\ Products' = Products \cup {p}
      /\ \A o \in Products' : product'[o].vendor \in Vendors
      /\ \A o, n \in Products' : Clash(product'[o], product'[n]) => o = n
  BY <1>1, <1>3, OneRow
<1>5. product[p] # New /\ product'[p] # New
      /\ \A o \in Product \ {p} : product'[o] = product[o]
  BY <1>1, <1>3, Marks DEF IInv, TypeOK, Products
<1>6. req' = [r \in Request |->
                     IF r = q THEN Idle
                     ELSE IF req[r].pc \in {"form", "update"} /\ req[r].product = p
                          THEN Stale(req[r]) ELSE req[r]]
  BY <1>1 DEF FinishWriting, Stale
<1>7. /\ req' \in [Request -> Progress]
      /\ \A o \in Request : Knows(req'[o], product')
  BY <1>3, <1>5, <1>6, StaleStep
<1>8. TypeOK'
  BY <1>1, <1>4, <1>7 DEF IInv, TypeOK
<1>9. ReferencesHold' /\ KeysOnce'
  BY <1>1, <1>4, ProductRows
<1>10. QED
  BY <1>7, <1>8, <1>9 DEF IInv

LEMMA GlobalInv ==
    ASSUME IInv, NEW p \in Product, NEW default \in WebDefault, GlobalUpdate(p, default)
    PROVE  IInv'
<1> DEFINE row == [product[p] EXCEPT !.default = default]
<1>1. /\ p \in Products /\ recorded < MaxRecorded /\ recorded' = recorded + 1
      /\ UNCHANGED <<vendor, alias, license, started>>
  BY DEF GlobalUpdate
<1>2. product[p] \in ProductRow
  BY <1>1, RowTypes DEF IInv
<1>3. product' = [product EXCEPT ![p] = row]
  BY <1>2 DEF GlobalUpdate, IInv, TypeOK
<1>4. row \in ProductRow /\ row.vendor = product[p].vendor
      /\ row.name = product[p].name /\ row.edition = product[p].edition
  BY <1>2 DEF ProductRow, Default
<1>5. row.vendor \in Vendors
  BY <1>1, <1>4 DEF IInv, ReferencesHold
<1>6. \A o \in Products \ {p} : ~Clash(row, product[o])
  BY <1>1, <1>4 DEF IInv, KeysOnce, Clash
<1>7. /\ product' \in [Product -> ProductRow \cup {New, Gone}]
      /\ Products' = Products \cup {p}
      /\ \A o \in Products' : product'[o].vendor \in Vendors
      /\ \A o, n \in Products' : Clash(product'[o], product'[n]) => o = n
  BY <1>3, <1>4, <1>5, <1>6, OneRow
<1>8. product[p] # New /\ product'[p] # New
      /\ \A o \in Product \ {p} : product'[o] = product[o]
  BY <1>2, <1>3, <1>4, Marks DEF IInv, TypeOK
<1>9. PICK none : none \notin Request
  <2>1. (CHOOSE x : x \notin Request) \notin Request
    BY NoSetContainsEverything
  <2>2. QED
    BY <2>1
<1>10. req' = [r \in Request |->
                     IF r = none THEN Idle
                     ELSE IF req[r].pc \in {"form", "update"} /\ req[r].product = p
                          THEN Stale(req[r]) ELSE req[r]]
  BY <1>9 DEF GlobalUpdate, Stale
<1>11. /\ req' \in [Request -> Progress]
       /\ \A o \in Request : Knows(req'[o], product')
  BY <1>8, <1>10, StaleStep
<1>12. TypeOK'
  BY <1>1, <1>7, <1>11, CatalogAssumption DEF IInv, TypeOK
<1>13. ReferencesHold' /\ KeysOnce'
  BY <1>1, <1>7, ProductRows
<1>14. QED
  BY <1>11, <1>12, <1>13 DEF IInv

LEMMA DeleteProductInv ==
    ASSUME IInv, NEW p \in Product, DeleteProduct(p)
    PROVE  IInv'
<1>1. /\ \A o \in Product : product'[o] = IF o = p THEN Gone ELSE product[o]
      /\ product' \in [Product -> ProductRow \cup {New, Gone}]
  BY DEF DeleteProduct, IInv, TypeOK
<1>2. Products' = Products \ {p} /\ \A o \in Products' : product'[o] = product[o]
  BY <1>1 DEF Products
<1>3. /\ req' \in [Request -> Progress]
      /\ \A o \in Request : Knows(req'[o], product')
  BY <1>1, RequestsStay DEF DeleteProduct
<1>4. TypeOK'
  BY <1>1, <1>3 DEF IInv, TypeOK, DeleteProduct
<1>5. ReferencesHold'
  BY <1>2 DEF IInv, ReferencesHold, DeleteProduct, Vendors, Aliases, Licenses
<1>6. KeysOnce'
  BY <1>2 DEF IInv, KeysOnce, DeleteProduct, Vendors, Aliases
<1>7. QED
  BY <1>3, <1>4, <1>5, <1>6 DEF IInv

-----------------------------------------------------------------------------
(* What refers to products                                                 *)

\* Aliases change; each has its product, and a name of its own.
LEMMA AliasRows ==
    ASSUME IInv, UNCHANGED <<vendor, product, license>>,
           \A a \in Aliases' : alias'[a].product \in Products,
           \A a, b \in Aliases' : alias'[a].name = alias'[b].name => a = b
    PROVE  ReferencesHold' /\ KeysOnce'
BY DEF IInv, ReferencesHold, KeysOnce, Vendors, Products, Licenses, Clash

LEMMA LookForAliasInv ==
    ASSUME IInv, NEW q \in Request, LookForAlias(q)
    PROVE  IInv'
<1>1. PICK row \in AliasRow : /\ Begin(q, [pc |-> "alias", row |-> row])
                              /\ UNCHANGED <<vendor, product, alias, license, recorded>>
  BY DEF LookForAlias
<1>2. [pc |-> "alias", row |-> row] \in Aliasing
  BY DEF Aliasing
<1>3. Knows([pc |-> "alias", row |-> row], product)
  BY <1>2, Kinds DEF Knows, Apart, Fresh
<1>4. QED
  BY <1>1, <1>3, BeginStep

LEMMA CreateAliasInv ==
    ASSUME IInv, NEW q \in Request, CreateAlias(q)
    PROVE  IInv'
<1>0. PICK row : row = req[q].row
  OBVIOUS
<1>1. PICK a \in Alias :
        /\ req[q].pc = "alias"
        /\ alias[a] = New
        /\ \A b \in Aliases : alias[b].name # row.name
        /\ row.product \in Products
        /\ alias' = [alias EXCEPT ![a] = row]
        /\ Finish(q)
        /\ UNCHANGED <<vendor, product, license, started, recorded>>
  BY <1>0 DEF CreateAlias
<1>2. row \in AliasRow
  BY <1>0, <1>1, KindOf DEF IInv, TypeOK, Aliasing
<1>3. /\ req' \in [Request -> Progress]
      /\ \A o \in Request : Knows(req'[o], product')
  BY <1>1, FinishStep
<1>4. alias' \in [Alias -> AliasRow \cup {New, Gone}]
      /\ \A b \in Alias : alias'[b] = IF b = a THEN row ELSE alias[b]
  BY <1>1, <1>2 DEF IInv, TypeOK
<1>5. TypeOK'
  BY <1>1, <1>3, <1>4 DEF IInv, TypeOK
<1>6. Aliases' = Aliases \cup {a} /\ a \notin Aliases
  BY <1>1, <1>2, <1>4, Marks DEF Aliases
<1>7. \A b \in Aliases' : alias'[b].product \in Products
  BY <1>1, <1>4, <1>6 DEF IInv, ReferencesHold, Aliases
<1>8. \A b, c \in Aliases' : alias'[b].name = alias'[c].name => b = c
  BY <1>1, <1>4, <1>6 DEF IInv, KeysOnce, Aliases
<1>9. QED
  BY <1>1, <1>3, <1>5, <1>7, <1>8, AliasRows DEF IInv

LEMMA DeleteAliasInv ==
    ASSUME IInv, NEW a \in Alias, DeleteAlias(a)
    PROVE  IInv'
<1>1. alias' \in [Alias -> AliasRow \cup {New, Gone}]
      /\ \A b \in Alias : alias'[b] = IF b = a THEN Gone ELSE alias[b]
  BY DEF DeleteAlias, IInv, TypeOK
<1>2. Aliases' = Aliases \ {a} /\ \A b \in Aliases' : alias'[b] = alias[b]
  BY <1>1 DEF Aliases
<1>3. TypeOK'
  BY <1>1 DEF IInv, TypeOK, DeleteAlias
<1>4. ReferencesHold' /\ KeysOnce'
  BY <1>2, AliasRows DEF IInv, ReferencesHold, KeysOnce, DeleteAlias
<1>5. QED
  BY <1>3, <1>4 DEF IInv, DeleteAlias

LEMMA LookForLicenseInv ==
    ASSUME IInv, NEW q \in Request, LookForLicense(q)
    PROVE  IInv'
<1>1. PICK p \in Products : /\ Begin(q, [pc |-> "license", product |-> p])
                            /\ UNCHANGED <<vendor, product, alias, license, recorded>>
  BY DEF LookForLicense
<1>2. [pc |-> "license", product |-> p] \in Licensing
  BY DEF Licensing, Products
<1>3. Knows([pc |-> "license", product |-> p], product)
  BY <1>2, Kinds DEF Knows, Apart, Fresh
<1>4. QED
  BY <1>1, <1>3, BeginStep

LEMMA CreateLicenseInv ==
    ASSUME IInv, NEW q \in Request, CreateLicense(q)
    PROVE  IInv'
<1>0. PICK p : p = req[q].product
  OBVIOUS
<1>1. PICK l \in License :
        /\ p \in Products
        /\ license' = [license EXCEPT ![l] = p]
        /\ Finish(q)
        /\ UNCHANGED <<vendor, product, alias, started, recorded>>
  BY <1>0 DEF CreateLicense
<1>2. /\ req' \in [Request -> Progress]
      /\ \A o \in Request : Knows(req'[o], product')
  BY <1>1, FinishStep
<1>3. license' \in [License -> Product \cup {New, Gone}]
      /\ \A m \in License : license'[m] = IF m = l THEN p ELSE license[m]
  BY <1>1 DEF IInv, TypeOK, Products
<1>4. TypeOK'
  BY <1>1, <1>2, <1>3 DEF IInv, TypeOK
<1>5. ReferencesHold'
  BY <1>1, <1>3 DEF IInv, ReferencesHold, Vendors, Products, Aliases, Licenses
<1>6. KeysOnce'
  BY <1>1 DEF IInv, KeysOnce, Vendors, Products, Aliases, Clash
<1>7. QED
  BY <1>2, <1>4, <1>5, <1>6 DEF IInv

-----------------------------------------------------------------------------
(* The import                                                              *)

LEMMA ValidateInv ==
    ASSUME IInv, NEW q \in Request,
           ValidateVendors(q) \/ ValidateProducts(q) \/ ValidateAliases(q)
    PROVE  IInv'
<1>1. CASE ValidateVendors(q)
  <2>1. PICK lines \in Files(VendorLine) :
           /\ Begin(q, [pc |-> "vendors", lines |-> lines])
           /\ UNCHANGED <<vendor, product, alias, license, recorded>>
    BY <1>1 DEF ValidateVendors
  <2>2. [pc |-> "vendors", lines |-> lines] \in VendorFile
    BY DEF VendorFile, Files
  <2>3. Knows([pc |-> "vendors", lines |-> lines], product)
    BY <2>2, Kinds DEF Knows, Apart, Fresh
  <2>4. QED
    BY <2>1, <2>3, BeginStep
<1>2. CASE ValidateProducts(q)
  <2>1. PICK lines \in Files(ProductLine) :
           /\ \A x, y \in lines : SameKey(x, y) => x = y
           /\ Begin(q, [pc |-> "products", lines |-> lines])
           /\ UNCHANGED <<vendor, product, alias, license, recorded>>
    BY <1>2 DEF ValidateProducts
  <2>2. [pc |-> "products", lines |-> lines] \in ProductFile
    BY DEF ProductFile, Files
  <2>3. Knows([pc |-> "products", lines |-> lines], product)
    BY <2>1, <2>2, Kinds DEF Knows, Apart, Fresh
  <2>4. QED
    BY <2>1, <2>3, BeginStep
<1>3. CASE ValidateAliases(q)
  <2>1. PICK lines \in Files(AliasLine) :
           /\ \A x, y \in lines : x.alias = y.alias => x = y
           /\ Begin(q, [pc |-> "aliases", lines |-> lines])
           /\ UNCHANGED <<vendor, product, alias, license, recorded>>
    BY <1>3 DEF ValidateAliases
  <2>2. [pc |-> "aliases", lines |-> lines] \in AliasFile
    BY DEF AliasFile, Files
  <2>3. Knows([pc |-> "aliases", lines |-> lines], product)
    BY <2>1, <2>2, Kinds DEF Knows, Apart, Fresh
  <2>4. QED
    BY <2>1, <2>3, BeginStep
<1>4. QED
  BY <1>1, <1>2, <1>3

LEMMA ImportVendorsInv ==
    ASSUME IInv, NEW q \in Request, ImportVendors(q)
    PROVE  IInv'
<1> DEFINE lines == req[q].lines
<1>1. req[q].pc = "vendors" /\ \A x \in lines : Named(x) = {}
  BY DEF ImportVendors
<1>2. Finish(q) /\ UNCHANGED <<product, alias, license, started, recorded>>
  BY DEF ImportVendors
<1>3. PICK f \in Numbered(lines, {v \in Vendor : vendor[v] = New}) :
        vendor' = [v \in Vendor |-> IF \E x \in lines : f[x] = v
                                    THEN CHOOSE x \in lines : f[x] = v ELSE vendor[v]]
  BY DEF ImportVendors
<1>4. lines \subseteq VendorName
  BY <1>1, KindOf DEF IInv, TypeOK, VendorFile, VendorLine
<1> HIDE DEF lines
<1>5. \A v \in Vendor : \/ /\ \A x \in lines : f[x] # v
                           /\ vendor'[v] = vendor[v]
                        \/ /\ vendor'[v] \in lines /\ f[vendor'[v]] = v
                           /\ vendor[v] = New
  BY <1>3 DEF Numbered
<1>6. vendor' \in [Vendor -> VendorName \cup {New, Gone}]
  BY <1>3, <1>4, <1>5 DEF IInv, TypeOK
<1>7. /\ req' \in [Request -> Progress]
      /\ \A o \in Request : Knows(req'[o], product')
  BY <1>2, FinishStep
<1>8. TypeOK'
  BY <1>2, <1>6, <1>7 DEF IInv, TypeOK
<1>9. Vendors \subseteq Vendors'
  BY <1>5 DEF Vendors
<1>10. \A v, w \in Vendors' : vendor'[v] = vendor'[w] => v = w
  BY <1>1, <1>5 DEF IInv, KeysOnce, Vendors, Named
<1>11. ReferencesHold' /\ KeysOnce'
  BY <1>2, <1>9, <1>10 DEF IInv, ReferencesHold, KeysOnce, Products, Aliases, Licenses, Clash
<1>12. QED
  BY <1>7, <1>8, <1>11 DEF IInv

LEMMA ImportProductsInv ==
    ASSUME IInv, NEW q \in Request, ImportProducts(q)
    PROVE  IInv'
<1> DEFINE lines == req[q].lines
<1>1. req[q].pc = "products"
      /\ \A x \in lines : /\ Named(x.vendor) # {}
                          /\ \A p \in Products : ~Clash(RowOf(x), product[p])
  BY DEF ImportProducts
<1>2. Finish(q) /\ UNCHANGED <<vendor, alias, license, started, recorded>>
  BY DEF ImportProducts
<1>3. PICK f \in Numbered(lines, {p \in Product : product[p] = New}) :
        product' = [p \in Product |-> IF \E x \in lines : f[x] = p
                                      THEN RowOf(CHOOSE x \in lines : f[x] = p)
                                      ELSE product[p]]
  BY DEF ImportProducts
<1>4. lines \subseteq ProductLine /\ \A x, y \in lines : SameKey(x, y) => x = y
  BY <1>1, KindOf DEF IInv, TypeOK, ProductFile, Knows, Apart
<1> HIDE DEF lines
<1>5. ASSUME NEW x \in lines
      PROVE  /\ RowOf(x) \in ProductRow
             /\ RowOf(x).vendor \in Vendors /\ vendor[RowOf(x).vendor] = x.vendor
             /\ RowOf(x).name = x.name /\ RowOf(x).edition = x.edition
  <2>1. (CHOOSE v \in Named(x.vendor) : TRUE) \in Named(x.vendor)
    BY <1>1
  <2>2. RowOf(x).vendor \in Named(x.vendor)
    BY <2>1 DEF RowOf
  <2>3. x \in ProductLine
    BY <1>4
  <2>4. RowOf(x) \in ProductRow
    BY <2>1, <2>3 DEF RowOf, ProductLine, ProductRow, Type, Default, Named, Vendors
  <2>5. QED
    BY <2>2, <2>4 DEF RowOf, Named
<1>6. \A p \in Product : \/ product'[p] = product[p]
                         \/ /\ product[p] = New
                            /\ \E x \in lines : f[x] = p /\ product'[p] = RowOf(x)
  BY <1>3 DEF Numbered
<1>7. product' \in [Product -> ProductRow \cup {New, Gone}]
  BY <1>3, <1>5, <1>6 DEF IInv, TypeOK
<1>8. /\ req' \in [Request -> Progress]
      /\ \A o \in Request : Knows(req'[o], product')
  BY <1>2, <1>6, FinishStep
<1>9. TypeOK'
  BY <1>2, <1>7, <1>8 DEF IInv, TypeOK
<1>10. Products \subseteq Products'
  BY <1>6 DEF Products
<1>11. \A p \in Products' : product'[p].vendor \in Vendors
  BY <1>5, <1>6 DEF IInv, ReferencesHold, Products
<1>12. ASSUME NEW p \in Products', NEW o \in Products', Clash(product'[p], product'[o])
       PROVE  p = o
  <2>1. CASE p \in Products /\ o \in Products
    BY <1>6, <1>12, <2>1 DEF IInv, KeysOnce, Products
  <2>2. CASE p \notin Products /\ o \in Products
    <3>1. PICK x \in lines : product'[p] = RowOf(x)
      BY <1>6, <2>2 DEF Products
    <3>2. product'[o] = product[o]
      BY <1>6, <2>2 DEF Products
    <3>3. QED
      BY <1>1, <1>12, <2>2, <3>1, <3>2
  <2>3. CASE p \in Products /\ o \notin Products
    <3>1. PICK x \in lines : product'[o] = RowOf(x)
      BY <1>6, <2>3 DEF Products
    <3>2. product'[p] = product[p]
      BY <1>6, <2>3 DEF Products
    <3>3. Clash(RowOf(x), product[p])
      BY <1>12, <3>1, <3>2 DEF Clash
    <3>4. QED
      BY <1>1, <2>3, <3>3
  <2>4. CASE p \notin Products /\ o \notin Products
    <3>1. PICK x \in lines, y \in lines : /\ f[x] = p /\ product'[p] = RowOf(x)
                                          /\ f[y] = o /\ product'[o] = RowOf(y)
      BY <1>6, <2>4 DEF Products
    <3>2. x.vendor = y.vendor /\ x.name = y.name /\ x.edition = y.edition
      BY <1>5, <1>12, <3>1 DEF Clash
    <3>3. QED
      BY <1>4, <3>1, <3>2 DEF SameKey
  <2>5. QED
    BY <2>1, <2>2, <2>3, <2>4
<1>13. ReferencesHold' /\ KeysOnce'
  BY <1>2, <1>10, <1>11, <1>12, ProductRows
<1>14. QED
  BY <1>8, <1>9, <1>13 DEF IInv

LEMMA ImportAliasesInv ==
    ASSUME IInv, NEW q \in Request, ImportAliases(q)
    PROVE  IInv'
<1> DEFINE lines == req[q].lines
<1>1. req[q].pc = "aliases"
      /\ \A x \in lines : \A a \in Aliases : alias[a].name # x.alias
  BY DEF ImportAliases
<1>2. Finish(q) /\ UNCHANGED <<vendor, product, license, started, recorded>>
  BY DEF ImportAliases
<1>3. PICK f \in Numbered(lines, {a \in Alias : alias[a] = New}), of \in [lines -> Products] :
        alias' = [a \in Alias |->
                        IF \E x \in lines : f[x] = a
                        THEN LET x == CHOOSE x \in lines : f[x] = a
                             IN  [name |-> x.alias, product |-> of[x]]
                        ELSE alias[a]]
  BY DEF ImportAliases
<1>4. lines \subseteq AliasLine /\ \A x, y \in lines : x.alias = y.alias => x = y
  BY <1>1, KindOf DEF IInv, TypeOK, AliasFile, Knows, Apart
<1> HIDE DEF lines
<1>5. \A a \in Alias : \/ alias'[a] = alias[a]
                       \/ /\ alias[a] = New
                          /\ \E x \in lines : /\ f[x] = a
                                              /\ alias'[a] = [name |-> x.alias, product |-> of[x]]
  BY <1>3 DEF Numbered
<1>6. \A x \in lines : [name |-> x.alias, product |-> of[x]] \in AliasRow
  BY <1>3, <1>4 DEF AliasLine, AliasRow, Products
<1>7. alias' \in [Alias -> AliasRow \cup {New, Gone}]
  BY <1>3, <1>5, <1>6 DEF IInv, TypeOK
<1>8. /\ req' \in [Request -> Progress]
      /\ \A o \in Request : Knows(req'[o], product')
  BY <1>2, FinishStep
<1>9. TypeOK'
  BY <1>2, <1>7, <1>8 DEF IInv, TypeOK
<1>10. ASSUME NEW a \in Aliases'
       PROVE  \/ a \in Aliases /\ alias'[a] = alias[a]
              \/ \E x \in lines : /\ f[x] = a
                                  /\ alias'[a].name = x.alias /\ alias'[a].product = of[x]
  <2>1. CASE alias'[a] = alias[a]
    BY <2>1 DEF Aliases
  <2>2. CASE \E x \in lines : /\ f[x] = a
                              /\ alias'[a] = [name |-> x.alias, product |-> of[x]]
    BY <2>2
  <2>3. QED
    BY <1>5, <2>1, <2>2 DEF Aliases
<1>11. \A a \in Aliases' : alias'[a].product \in Products
  <2>1. \A x \in lines : of[x] \in Products
    OBVIOUS
  <2>2. QED
    BY <1>10, <2>1 DEF IInv, ReferencesHold
<1>12. \A a, b \in Aliases' : alias'[a].name = alias'[b].name => a = b
  BY <1>1, <1>4, <1>10 DEF IInv, KeysOnce
<1>13. QED
  BY <1>2, <1>8, <1>9, <1>11, <1>12, AliasRows DEF IInv

LEMMA EndInv ==
    ASSUME IInv, NEW q \in Request, EndRequest(q)
    PROVE  IInv'
<1>1. /\ req' \in [Request -> Progress]
      /\ \A o \in Request : Knows(req'[o], product')
  BY FinishStep DEF EndRequest
<1>2. TypeOK'
  BY <1>1 DEF IInv, TypeOK, EndRequest
<1>3. ReferencesHold' /\ KeysOnce'
  BY DEF IInv, ReferencesHold, KeysOnce, EndRequest, Vendors, Products, Aliases, Licenses, Clash
<1>4. QED
  BY <1>1, <1>2, <1>3 DEF IInv

LEMMA NextInv == IInv /\ [Next]_vars => IInv'
<1> SUFFICES ASSUME IInv, [Next]_vars PROVE IInv'
  OBVIOUS
<1>1. CASE UNCHANGED vars
  BY <1>1 DEF vars, IInv, TypeOK, ReferencesHold, KeysOnce, Vendors, Products, Aliases,
     Licenses, Clash
<1>2. CASE \E v \in Vendor, name \in VendorName : CreateVendor(v, name) \/ UpdateVendor(v, name)
  BY <1>2, VendorInv
<1>3. CASE \E p \in Product : \/ DeleteProduct(p)
                              \/ \E default \in WebDefault : GlobalUpdate(p, default)
  BY <1>3, DeleteProductInv, GlobalInv
<1>4. CASE \E a \in Alias : DeleteAlias(a)
  BY <1>4, DeleteAliasInv
<1>5. ASSUME NEW q \in Request,
             \/ CountProductsByVendor(q) \/ DeleteVendor(q)
             \/ EditProduct(q) \/ PostUpdate(q) \/ UpdateProduct(q)
             \/ PostCreate(q) \/ CreateProduct(q)
      PROVE  IInv'
  BY <1>5, CountInv, DeleteVendorInv, EditInv, PostUpdateInv, UpdateProductInv,
     PostCreateInv, CreateProductInv
<1>6. ASSUME NEW q \in Request,
             \/ LookForAlias(q) \/ CreateAlias(q)
             \/ LookForLicense(q) \/ CreateLicense(q)
             \/ ValidateVendors(q) \/ ImportVendors(q)
             \/ ValidateProducts(q) \/ ImportProducts(q)
             \/ ValidateAliases(q) \/ ImportAliases(q)
             \/ EndRequest(q)
      PROVE  IInv'
  BY <1>6, LookForAliasInv, CreateAliasInv, LookForLicenseInv, CreateLicenseInv, ValidateInv,
     ImportVendorsInv, ImportProductsInv, ImportAliasesInv, EndInv
<1>7. QED
  BY <1>1, <1>2, <1>3, <1>4, <1>5, <1>6 DEF Next

\* IInv holds in every reachable state.
THEOREM Invariance == Spec => []IInv
BY InitInv, NextInv, PTL DEF Spec

\* Every variable keeps its type, whatever a request overtakes.
THEOREM TypeCorrect == Spec => []TypeOK
BY Invariance, PTL DEF IInv

\* No product loses its vendor and no alias or licence its product, for any
\* number of requests between the looking and the writing.
THEOREM ReferencesStay == Spec => []ReferencesHold
BY Invariance, PTL DEF IInv

\* Names and keys stay apart, in the forms and in the import.
THEOREM KeysStayApart == Spec => []KeysOnce
BY Invariance, PTL DEF IInv

-----------------------------------------------------------------------------
(* What a save writes                                                      *)

Written(p, f) == product'[p] # Gone /\ product'[p][f] # product[p][f]

Field == {"vendor", "name", "edition", "type", "default"}

Explained(p, f) ==
    \/ f = "default" /\ recorded' > recorded
    \/ \E q \in Request : LET r == req[q] IN
         /\ r.pc = "update" /\ r.product = p /\ req'[q] = Idle
         /\ \/ r.posted[f] # r.shown[f]
            \/ r.stale
            \/ f = "type" /\ r.read.type \notin WebType
            \/ f = "default" /\ r.read.default \notin WebDefault

\* A form that nobody overtook writes back what it showed.
LEMMA SaveExplained ==
    ASSUME IInv, NEW q \in Request, UpdateProduct(q), NEW p \in Products, NEW f \in Field,
           Written(p, f)
    PROVE  Explained(p, f)
<1>1. PICK r : r = req[q]
  OBVIOUS
<1>2. /\ r.pc = "update" /\ r.product \in Products /\ r.posted.vendor \in Vendors
      /\ product' = [product EXCEPT ![r.product] = r.posted]
  BY <1>1 DEF UpdateProduct
<1>3. req'[q] = Idle
  BY DEF UpdateProduct, FinishWriting
<1>4. r.product = p
  BY <1>2 DEF Written, IInv, TypeOK, Products
<1>5. product'[p] = r.posted
  BY <1>2, <1>4 DEF IInv, TypeOK, Products
<1>6. Knows(r, product)
  BY <1>1 DEF IInv
<1>7. ASSUME ~r.stale, r.posted[f] = r.shown[f],
             f = "type" => r.read.type \in WebType,
             f = "default" => r.read.default \in WebDefault
      PROVE  FALSE
  <2>1. product[p] = r.read
    BY <1>2, <1>4, <1>6, <1>7 DEF Knows, Fresh, Products
  <2>2. ShownFrom(r.shown, r.read)
    BY <1>2, <1>6 DEF Knows, Fresh
  <2>3. r.posted.vendor # New
    BY <1>2, Marks DEF Vendors
  <2>4. r.posted[f] # r.read[f]
    BY <1>5, <2>1 DEF Written
  <2>5. CASE f = "vendor"
    BY <1>7, <2>2, <2>3, <2>4, <2>5 DEF ShownFrom
  <2>6. CASE f \in {"name", "edition"}
    BY <1>7, <2>2, <2>4, <2>6 DEF ShownFrom
  <2>7. CASE f = "type"
    BY <1>7, <2>2, <2>4, <2>7 DEF ShownFrom
  <2>8. CASE f = "default"
    BY <1>7, <2>2, <2>4, <2>8 DEF ShownFrom
  <2>9. QED
    BY <2>5, <2>6, <2>7, <2>8 DEF Field
<1>8. QED
  BY <1>1, <1>2, <1>3, <1>4, <1>7 DEF Explained

\* The global approvals page writes the default status and records it.
LEMMA GlobalExplained ==
    ASSUME IInv, NEW o \in Product, NEW default \in WebDefault, GlobalUpdate(o, default),
           NEW p \in Products, NEW f \in Field, Written(p, f)
    PROVE  Explained(p, f)
<1>1. recorded' > recorded
  BY CatalogAssumption DEF GlobalUpdate, IInv, TypeOK
<1>2. product[o] \in ProductRow
  BY RowTypes DEF GlobalUpdate, IInv
<1>3. product'[o] = [product[o] EXCEPT !.default = default]
      /\ \A n \in Product \ {o} : product'[n] = product[n]
  BY DEF GlobalUpdate, IInv, TypeOK
<1>4. p = o
  BY <1>3 DEF Written, Products
<1>5. f = "default"
  BY <1>2, <1>3, <1>4 DEF Written, ProductRow, Field
<1>6. QED
  BY <1>1, <1>5 DEF Explained

\* A save changes what its user has changed, a page that records it apart:
\* whatever a form shows otherwise, it was overtaken, or a file put it there.
THEOREM SavesKeepTheRest == Spec => FormsKeepTheRest
<1> DEFINE P == \A p \in Products : \A f \in Field : Written(p, f) => Explained(p, f)
<1>1. ASSUME IInv, [Next]_vars PROVE P
  <2> SUFFICES ASSUME NEW p \in Products, NEW f \in Field, Written(p, f)
               PROVE  Explained(p, f)
    OBVIOUS
  <2>1. ~(product'[p] = product[p])
    BY DEF Written
  <2>2. ~(product' = product)
    BY <2>1
  <2>3. ~(\E q \in Request : CreateProduct(q) \/ ImportProducts(q))
    <3>1. ASSUME NEW q \in Request, CreateProduct(q)
          PROVE  FALSE
      BY <1>1, <2>1, <3>1 DEF CreateProduct, IInv, TypeOK, Products
    <3>2. ASSUME NEW q \in Request, ImportProducts(q)
          PROVE  FALSE
      BY <1>1, <2>1, <3>2 DEF ImportProducts, Numbered, IInv, TypeOK, Products
    <3>3. QED
      BY <3>1, <3>2
  <2>4. ~(\E o \in Product : DeleteProduct(o))
    BY <1>1, <2>1 DEF DeleteProduct, Written, IInv, TypeOK, Products
  <2>5. \/ \E q \in Request : UpdateProduct(q)
        \/ \E o \in Product : \E default \in WebDefault : GlobalUpdate(o, default)
    BY <1>1, <2>2, <2>3, <2>4 DEF Next, vars, CreateVendor, UpdateVendor, DeleteAlias,
       CountProductsByVendor, DeleteVendor, EditProduct, PostUpdate, PostCreate, LookForAlias,
       CreateAlias, LookForLicense, CreateLicense, ValidateVendors, ImportVendors,
       ValidateProducts, ValidateAliases, ImportAliases, EndRequest
  <2>6. QED
    BY <1>1, <2>5, SaveExplained, GlobalExplained
<1>2. P => \A p \in Products : \A f \in {"vendor", "name", "edition", "type", "default"} :
         product'[p] # Gone /\ product'[p][f] # product[p][f] =>
           \/ f = "default" /\ recorded' > recorded
           \/ \E q \in Request : LET r == req[q] IN
                /\ r.pc = "update" /\ r.product = p /\ req'[q] = Idle
                /\ \/ r.posted[f] # r.shown[f]
                   \/ r.stale
                   \/ f = "type" /\ r.read.type \notin WebType
                   \/ f = "default" /\ r.read.default \notin WebDefault
  BY DEF Field, Written, Explained
<1>3. QED
  BY Invariance, <1>1, <1>2, PTL DEF Spec, FormsKeepTheRest

-----------------------------------------------------------------------------
(* Verdicts                                                                *)

\* An instant lies in its day.
LEMMA DayBounds ==
    ASSUME NEW x \in Nat
    PROVE  Day(x) \in Nat /\ Day(x) * Hours <= x /\ x < Day(x) * Hours + Hours
BY ApprovalAssumption, SMTT(60) DEF Day

\* The day of e is over when a later one has begun.
LEMMA DayEnds ==
    ASSUME NEW now \in Nat, NEW e \in Nat
    PROVE  now >= EndOfDay(e) <=> Day(now) > Day(e)
<1> USE ApprovalAssumption
<1>1. PICK a \in Nat, b \in Nat : a = Day(e) /\ b = Day(now)
  BY DayBounds
<1>2. b * Hours <= now /\ now < b * Hours + Hours
  BY <1>1, DayBounds
<1>3. CASE b > a
  <2>1. b * Hours >= (a + 1) * Hours
    BY <1>3, SMTT(30)
  <2>2. QED
    BY <1>1, <1>2, <1>3, <2>1 DEF EndOfDay
<1>4. CASE b <= a
  <2>1. b * Hours + Hours = (b + 1) * Hours
    BY SMTT(30)
  <2>2. (b + 1) * Hours <= (a + 1) * Hours
    BY <1>4, SMTT(30)
  <2>3. QED
    BY <1>1, <1>2, <1>4, <2>1, <2>2 DEF EndOfDay
<1>5. QED
  BY <1>3, <1>4

\* What is valid to this day has not expired.
LEMMA ValidIsNotExpired ==
    ASSUME NEW now \in Nat, NEW expires \in Nat \cup {-1}
    PROVE  (expires # -1 /\ now >= EndOfDay(expires))
             <=> ~(expires = -1 \/ Day(now) <= Day(expires))
<1>1. CASE expires = -1
  BY <1>1
<1>2. CASE expires \in Nat
  BY <1>2, DayEnds, DayBounds
<1>3. QED
  BY <1>1, <1>2

\* Evaluate meets its specification for every default status, also for those
\* that no page offers.
LEMMA EvaluateMeets ==
    ASSUME NEW default
    PROVE  Meets(default)
<1> DEFINE Instants == 0 .. 2 * Hours - 1
<1>1. Instants \subseteq Nat
  OBVIOUS
<1> SUFFICES ASSUME NEW now \in Nat, NEW rec \in Record(Nat) \cup {NoRecord}
             PROVE
      LET verdict == Evaluate(default, rec, now)
          valid   == rec # NoRecord /\ (rec.expires = -1 \/ Day(now) <= Day(rec.expires))
      IN
      /\ verdict = "allowed" <=>
           \/ default = "globally_approved"
           \/ /\ default = "department_discretion"
              /\ valid
              /\ rec.status = "approved"
              /\ rec.scope = "department_wide" \/ rec.inScope
      /\ verdict = "unreviewed" <=> default \notin DefaultStatus \ {"unknown"}
      /\ verdict \in {"unapproved", "expired"} => default = "department_discretion"
  BY <1>1 DEF Meets, Record
<1>2. CASE default # "department_discretion"
  <2>1. /\ default = "globally_approved" => Evaluate(default, rec, now) = "allowed"
        /\ default = "globally_prohibited" => Evaluate(default, rec, now) = "prohibited"
        /\ default \notin {"globally_approved", "globally_prohibited"} =>
             Evaluate(default, rec, now) = "unreviewed"
    BY <1>2 DEF Evaluate
  <2>2. QED
    BY <1>2, <2>1 DEF DefaultStatus
<1>3. CASE default = "department_discretion" /\ rec = NoRecord
  BY <1>3 DEF Evaluate, DefaultStatus
<1>4. CASE default = "department_discretion" /\ rec # NoRecord
  <2>1. rec \in Record(Nat)
    BY <1>4
  <2>2. rec.expires \in Nat \cup {-1} /\ rec.status \in Status
    BY <2>1 DEF Record
  <2>3. Expired(rec, now) <=> ~(rec.expires = -1 \/ Day(now) <= Day(rec.expires))
    BY <2>2, ValidIsNotExpired DEF Expired
  <2>4. Evaluate(default, rec, now) = IF Expired(rec, now) THEN "expired" ELSE ByStatus(rec)
    BY <1>4 DEF Evaluate
  <2>5. /\ rec.status = "approved" =>
             ByStatus(rec) = IF rec.scope = "department_wide" \/ rec.inScope
                             THEN "allowed" ELSE "unapproved"
        /\ rec.status = "conditional" => ByStatus(rec) = "conditional"
        /\ rec.status = "prohibited" => ByStatus(rec) = "prohibited"
    BY DEF ByStatus
  <2>6. rec.status \in {"approved", "conditional", "prohibited"}
    BY <2>2 DEF Status
  <2>7. QED
    BY <1>4, <2>3, <2>4, <2>5, <2>6 DEF DefaultStatus
<1>5. QED
  BY <1>2, <1>3, <1>4

\* The verdicts are those of the default status, or of an approval of this day
\* or a later one, for days of any length and any status that is stored.
THEOREM VerdictsMeetSpec == Spec => []VerdictMeetsSpec
<1>1. VerdictMeetsSpec
  BY EvaluateMeets DEF VerdictMeetsSpec, OfferedMeet
<1>2. QED
  BY <1>1, PTL
=============================================================================
