------------------------------ MODULE Catalog -------------------------------
(***************************************************************************)
(* Vendors, products and aliases: the forms of the web pages, the global   *)
(* approvals page, and the bootstrap import of the three files.            *)
(*                                                                         *)
(* A form shows a row as it was when the page was opened, in fields that   *)
(* offer what they know; the browser posts all of it back, and one UPDATE  *)
(* writes all of it, whatever happened since.  Before it writes, a handler *)
(* looks at the vendors, the products or the references in a statement of  *)
(* its own; UNIQUE and foreign keys are what holds between the two.        *)
(***************************************************************************)
EXTENDS Approval, FiniteSets

CONSTANTS
    Vendor, Product, Alias, License,  \* ids: an AUTOINCREMENT never gives one twice
    VendorName,     \* numbers, in the order of ListVendors
    ProductName, AliasName,
    Edition, NoEdition,               \* NoEdition is NULL
    WebType, FileType, FirstType,     \* software_type in the form (the first option) ...
    WebDefault, FileDefault, FirstDefault, \* ... and in the file; default_approval_status
    ListLimit,      \* LIMIT of ListVendors (200)
    Request,        \* concurrent requests (one of them the import)
    MaxRequests,    \* bound: requests in a behaviour
    MaxRecorded,    \* bound: changes on the global approvals page
    New, Gone       \* an id that was not given yet, or whose row was deleted

Type    == WebType \cup FileType
Default == WebDefault \cup FileDefault

ProductRow == [vendor : Vendor, name : ProductName, edition : Edition \cup {NoEdition},
               type : Type, default : Default]

AliasRow == [name : AliasName, product : Product]

\* A product form, as it is shown and posted: it may have no vendor.
Form == [vendor : Vendor \cup {New}, name : ProductName, edition : Edition \cup {NoEdition},
         type : WebType, default : WebDefault]

VendorLine  == VendorName
ProductLine == [vendor : VendorName, name : ProductName, edition : Edition \cup {NoEdition},
                type : FileType, default : FileDefault]
AliasLine   == [vendor : VendorName, name : ProductName, edition : Edition \cup {NoEdition},
                alias : AliasName]

Idle == [pc |-> "idle"]

\* read: the row that a form was made from; stale: it was written since.
Progress == {Idle}
  \cup [pc : {"form"}, product : Product, read : ProductRow, shown : Form, stale : BOOLEAN]
  \cup [pc : {"update"}, product : Product, read : ProductRow, shown : Form,
        posted : Form, stale : BOOLEAN]
  \cup [pc : {"create"}, posted : Form]
  \cup [pc : {"delete"}, vendor : Vendor]
  \cup [pc : {"alias"}, row : AliasRow]
  \cup [pc : {"license"}, product : Product]
  \cup [pc : {"vendors"}, lines : SUBSET VendorLine]
  \cup [pc : {"products"}, lines : SUBSET ProductLine]
  \cup [pc : {"aliases"}, lines : SUBSET AliasLine]

\* The files of an import: of at most two lines (a bound).
Files(line) == {{x, y} : x, y \in line}

ASSUME CatalogAssumption ==
    /\ VendorName \subseteq Nat
    /\ FirstType \in WebType /\ FirstDefault \in WebDefault
    /\ WebDefault \subseteq DefaultStatus
    /\ NoEdition \notin Edition
    /\ New # Gone
    /\ \A x \in {New, Gone} :
         /\ x \notin Vendor /\ x \notin Product /\ x \notin VendorName
         /\ x \notin ProductRow /\ x \notin AliasRow
    /\ ListLimit \in Nat /\ MaxRequests \in Nat /\ MaxRecorded \in Nat

VARIABLES
    vendor,    \* [Vendor  -> its name, New or Gone]
    product,   \* [Product -> its row, New or Gone]
    alias,     \* [Alias   -> its row, New or Gone]
    license,   \* [License -> its product, New or Gone]
    req,       \* [Request -> Progress]
    started,   \* how many requests were started
    recorded   \* rows of audit_logs about a default status

vars == <<vendor, product, alias, license, req, started, recorded>>

-----------------------------------------------------------------------------
TypeOK ==
    /\ vendor \in [Vendor -> VendorName \cup {New, Gone}]
    /\ product \in [Product -> ProductRow \cup {New, Gone}]
    /\ alias \in [Alias -> AliasRow \cup {New, Gone}]
    /\ license \in [License -> Product \cup {New, Gone}]
    /\ req \in [Request -> Progress]
    /\ started \in 0 .. MaxRequests
    /\ recorded \in 0 .. MaxRecorded

Init ==
    /\ vendor = [v \in Vendor |-> New]
    /\ product = [p \in Product |-> New]
    /\ alias = [a \in Alias |-> New]
    /\ license = [l \in License |-> New]
    /\ req = [q \in Request |-> Idle]
    /\ started = 0
    /\ recorded = 0

-----------------------------------------------------------------------------
Vendors  == {v \in Vendor : vendor[v] \notin {New, Gone}}
Products == {p \in Product : product[p] \notin {New, Gone}}
Aliases  == {a \in Alias : alias[a] \notin {New, Gone}}
Licenses == {l \in License : license[l] \notin {New, Gone}}

\* ListVendors: the first by name.
Listed ==
    {v \in Vendors : Cardinality({w \in Vendors : vendor[w] < vendor[v]}) < ListLimit}

\* UNIQUE(vendor_id, canonical_name, edition): NULLs are distinct.
Clash(row, other) ==
    /\ row.edition # NoEdition
    /\ row.vendor = other.vendor /\ row.name = other.name /\ row.edition = other.edition

\* A product of this key, NULL editions compared as equal.
OfKey(v, name, edition) ==
    {p \in Products : /\ product[p].vendor = v
                      /\ product[p].name = name
                      /\ product[p].edition = edition}

Begin(q, r) ==
    /\ req[q] = Idle
    /\ started < MaxRequests
    /\ started' = started + 1
    /\ req' = [req EXCEPT ![q] = r]

\* Request q ends; forms of product p are stale from now on.
FinishWriting(q, p) ==
    req' = [r \in Request |->
              CASE r = q -> Idle
                [] r # q /\ req[r].pc \in {"form", "update"} /\ req[r].product = p ->
                     [req[r] EXCEPT !.stale = TRUE]
                [] OTHER -> req[r]]

Finish(q) == req' = [req EXCEPT ![q] = Idle]

-----------------------------------------------------------------------------
(* Vendors                                                                 *)

\* UNIQUE(name)
NameFree(name, others) == \A w \in others : vendor[w] # name

\* CREATE and UPDATE are one statement each, and fail on a name that is taken.
CreateVendor(v, name) ==
    /\ vendor[v] = New
    /\ NameFree(name, Vendors)
    /\ vendor' = [vendor EXCEPT ![v] = name]
    /\ UNCHANGED <<product, alias, license, req, started, recorded>>

UpdateVendor(v, name) ==
    /\ v \in Vendors
    /\ NameFree(name, Vendors \ {v})
    /\ vendor' = [vendor EXCEPT ![v] = name]
    /\ UNCHANGED <<product, alias, license, req, started, recorded>>

CountProductsByVendor(q) ==
    \E v \in Vendors :
        /\ \A p \in Products : product[p].vendor # v
        /\ Begin(q, [pc |-> "delete", vendor |-> v])
        /\ UNCHANGED <<vendor, product, alias, license, recorded>>

\* A variant with a bug: the count is trusted, there is no foreign key.
DeleteVendorCounted(q) ==
    /\ req[q].pc = "delete"
    /\ vendor' = [vendor EXCEPT ![req[q].vendor] = Gone]
    /\ Finish(q)
    /\ UNCHANGED <<product, alias, license, started, recorded>>

DeleteVendor(q) ==
    /\ req[q].pc = "delete"
    /\ \A p \in Products : product[p].vendor # req[q].vendor
    /\ vendor' = [vendor EXCEPT ![req[q].vendor] = Gone]
    /\ Finish(q)
    /\ UNCHANGED <<product, alias, license, started, recorded>>

-----------------------------------------------------------------------------
(* Products                                                                *)

\* A select shows the option of its value, and its first one when it has none.
Option(value, offered, first) == IF value \in offered THEN value ELSE first

\* The select of the vendors has an empty option besides.
ShownVendor(v) == IF v \in Listed THEN v ELSE New

\* A variant with a bug: the status of the row is not selected.
ShownAsUnknown(row) ==
    [vendor |-> ShownVendor(row.vendor),
     name |-> row.name, edition |-> row.edition,
     type |-> Option(row.type, WebType, FirstType),
     default |-> FirstDefault]

Shown(row) ==
    [vendor |-> ShownVendor(row.vendor),
     name |-> row.name, edition |-> row.edition,
     type |-> Option(row.type, WebType, FirstType),
     default |-> Option(row.default, WebDefault, FirstDefault)]

EditProduct(q) ==
    \E p \in Products :
        /\ Begin(q, [pc |-> "form", product |-> p, read |-> product[p],
                     shown |-> Shown(product[p]), stale |-> FALSE])
        /\ UNCHANGED <<vendor, product, alias, license, recorded>>

\* decodeProductForm
Decodes(form) == form.vendor \in Listed

PostUpdate(q) ==
    \E form \in Form :
        /\ req[q].pc = "form"
        /\ Decodes(form)
        /\ req' = [req EXCEPT ![q] =
                     [pc |-> "update", product |-> req[q].product, read |-> req[q].read,
                      shown |-> req[q].shown, posted |-> form, stale |-> req[q].stale]]
        /\ UNCHANGED <<vendor, product, alias, license, started, recorded>>

UpdateProduct(q) ==
    LET p == req[q].product IN
    /\ req[q].pc = "update"
    /\ p \in Products
    /\ req[q].posted.vendor \in Vendors
    /\ \A o \in Products \ {p} : ~Clash(req[q].posted, product[o])
    /\ product' = [product EXCEPT ![p] = req[q].posted]
    /\ FinishWriting(q, p)
    /\ UNCHANGED <<vendor, alias, license, started, recorded>>

PostCreate(q) ==
    \E form \in Form :
        /\ Decodes(form)
        /\ Begin(q, [pc |-> "create", posted |-> form])
        /\ UNCHANGED <<vendor, product, alias, license, recorded>>

\* A variant with a bug: no unique index.
CreateProductAnyhow(q) ==
    \E p \in Product :
        /\ req[q].pc = "create"
        /\ product[p] = New
        /\ req[q].posted.vendor \in Vendors
        /\ product' = [product EXCEPT ![p] = req[q].posted]
        /\ Finish(q)
        /\ UNCHANGED <<vendor, alias, license, started, recorded>>

CreateProduct(q) ==
    \E p \in Product :
        /\ req[q].pc = "create"
        /\ product[p] = New
        /\ req[q].posted.vendor \in Vendors
        /\ \A o \in Products : ~Clash(req[q].posted, product[o])
        /\ product' = [product EXCEPT ![p] = req[q].posted]
        /\ Finish(q)
        /\ UNCHANGED <<vendor, alias, license, started, recorded>>

\* One statement; the foreign keys refuse it while something refers to p.
DeleteProduct(p) ==
    /\ p \in Products
    /\ \A a \in Aliases : alias[a].product # p
    /\ \A l \in Licenses : license[l] # p
    /\ product' = [product EXCEPT ![p] = Gone]
    /\ UNCHANGED <<vendor, alias, license, req, started, recorded>>

\* One transaction: the status and its row in audit_logs.
GlobalUpdate(p, default) ==
    /\ p \in Products
    /\ recorded < MaxRecorded
    /\ product' = [product EXCEPT ![p].default = default]
    /\ recorded' = recorded + 1
    /\ req' = [r \in Request |->
                 IF req[r].pc \in {"form", "update"} /\ req[r].product = p
                 THEN [req[r] EXCEPT !.stale = TRUE] ELSE req[r]]
    /\ UNCHANGED <<vendor, alias, license, started>>

-----------------------------------------------------------------------------
(* What refers to products                                                 *)

LookForAlias(q) ==
    \E row \in AliasRow :
        /\ row.product \in Products
        /\ Begin(q, [pc |-> "alias", row |-> row])
        /\ UNCHANGED <<vendor, product, alias, license, recorded>>

CreateAlias(q) ==
    \E a \in Alias :
        /\ req[q].pc = "alias"
        /\ alias[a] = New
        /\ \A b \in Aliases : alias[b].name # req[q].row.name
        /\ req[q].row.product \in Products
        /\ alias' = [alias EXCEPT ![a] = req[q].row]
        /\ Finish(q)
        /\ UNCHANGED <<vendor, product, license, started, recorded>>

DeleteAlias(a) ==
    /\ a \in Aliases
    /\ alias' = [alias EXCEPT ![a] = Gone]
    /\ UNCHANGED <<vendor, product, license, req, started, recorded>>

LookForLicense(q) ==
    \E p \in Products :
        /\ Begin(q, [pc |-> "license", product |-> p])
        /\ UNCHANGED <<vendor, product, alias, license, recorded>>

CreateLicense(q) ==
    \E l \in License :
        /\ req[q].pc = "license"
        /\ license[l] = New
        /\ req[q].product \in Products
        /\ license' = [license EXCEPT ![l] = req[q].product]
        /\ Finish(q)
        /\ UNCHANGED <<vendor, product, alias, started, recorded>>

-----------------------------------------------------------------------------
(* The import: validate the file, then one transaction                     *)

Importing == \E q \in Request : req[q].pc \in {"vendors", "products", "aliases"}

\* GetVendorByName
Named(name) == {v \in Vendors : vendor[v] = name}

\* GetProductByKey under the vendor of this name.
Resolve(x) == UNION {OfKey(v, x.name, x.edition) : v \in Named(x.vendor)}

\* New ids for the lines.
Numbered(lines, ids) == {f \in [lines -> ids] : \A x, y \in lines : f[x] = f[y] => x = y}

ValidateVendors(q) ==
    \E lines \in Files(VendorLine) :
        /\ ~Importing
        /\ \A x \in lines : Named(x) = {}
        /\ Begin(q, [pc |-> "vendors", lines |-> lines])
        /\ UNCHANGED <<vendor, product, alias, license, recorded>>

ImportVendors(q) ==
    LET lines == req[q].lines IN
    /\ req[q].pc = "vendors"
    /\ \A x \in lines : Named(x) = {}
    /\ \E f \in Numbered(lines, {v \in Vendor : vendor[v] = New}) :
         vendor' = [v \in Vendor |-> IF \E x \in lines : f[x] = v
                                     THEN CHOOSE x \in lines : f[x] = v ELSE vendor[v]]
    /\ Finish(q)
    /\ UNCHANGED <<product, alias, license, started, recorded>>

SameKey(x, y) == x.vendor = y.vendor /\ x.name = y.name /\ x.edition = y.edition

ValidateProducts(q) ==
    \E lines \in Files(ProductLine) :
        /\ ~Importing
        /\ \A x, y \in lines : SameKey(x, y) => x = y
        /\ \A x \in lines : Named(x.vendor) # {} /\ Resolve(x) = {}
        /\ Begin(q, [pc |-> "products", lines |-> lines])
        /\ UNCHANGED <<vendor, product, alias, license, recorded>>

\* The row of a line, its vendor looked up again.
RowOf(x) ==
    [vendor |-> CHOOSE v \in Named(x.vendor) : TRUE,
     name |-> x.name, edition |-> x.edition, type |-> x.type, default |-> x.default]

ImportProducts(q) ==
    LET lines == req[q].lines IN
    /\ req[q].pc = "products"
    /\ \A x \in lines : /\ Named(x.vendor) # {}
                        /\ \A p \in Products : ~Clash(RowOf(x), product[p])
    /\ \E f \in Numbered(lines, {p \in Product : product[p] = New}) :
         product' = [p \in Product |-> IF \E x \in lines : f[x] = p
                                       THEN RowOf(CHOOSE x \in lines : f[x] = p)
                                       ELSE product[p]]
    /\ Finish(q)
    /\ UNCHANGED <<vendor, alias, license, started, recorded>>

ValidateAliases(q) ==
    \E lines \in Files(AliasLine) :
        /\ ~Importing
        /\ \A x, y \in lines : x.alias = y.alias => x = y
        /\ \A x \in lines : /\ Resolve(x) # {}
                            /\ \A a \in Aliases : alias[a].name # x.alias
        /\ Begin(q, [pc |-> "aliases", lines |-> lines])
        /\ UNCHANGED <<vendor, product, alias, license, recorded>>

\* With two products of one key, LIMIT 1 takes either.
ImportAliases(q) ==
    LET lines == req[q].lines IN
    /\ req[q].pc = "aliases"
    /\ \A x \in lines : \A a \in Aliases : alias[a].name # x.alias
    /\ \E f \in Numbered(lines, {a \in Alias : alias[a] = New}), of \in [lines -> Products] :
         /\ \A x \in lines : of[x] \in Resolve(x)
         /\ alias' = [a \in Alias |->
                        IF \E x \in lines : f[x] = a
                        THEN LET x == CHOOSE x \in lines : f[x] = a
                             IN  [name |-> x.alias, product |-> of[x]]
                        ELSE alias[a]]
    /\ Finish(q)
    /\ UNCHANGED <<vendor, product, license, started, recorded>>

-----------------------------------------------------------------------------
\* A form that is closed, a conflict, a failing statement, or a crash.
EndRequest(q) ==
    /\ req[q] # Idle
    /\ Finish(q)
    /\ UNCHANGED <<vendor, product, alias, license, started, recorded>>

Next ==
    \/ \E v \in Vendor, name \in VendorName : CreateVendor(v, name) \/ UpdateVendor(v, name)
    \/ \E p \in Product : \/ DeleteProduct(p)
                          \/ \E default \in WebDefault : GlobalUpdate(p, default)
    \/ \E a \in Alias : DeleteAlias(a)
    \/ \E q \in Request :
         \/ CountProductsByVendor(q) \/ DeleteVendor(q)
         \/ EditProduct(q) \/ PostUpdate(q) \/ UpdateProduct(q)
         \/ PostCreate(q) \/ CreateProduct(q)
         \/ LookForAlias(q) \/ CreateAlias(q)
         \/ LookForLicense(q) \/ CreateLicense(q)
         \/ ValidateVendors(q) \/ ImportVendors(q)
         \/ ValidateProducts(q) \/ ImportProducts(q)
         \/ ValidateAliases(q) \/ ImportAliases(q)
         \/ EndRequest(q)

Spec == Init /\ [][Next]_vars

-----------------------------------------------------------------------------
(* Properties                                                              *)

\* No product without its vendor, no alias and no licence without its product,
\* although everybody looks first and writes later.
ReferencesHold ==
    /\ \A p \in Products : product[p].vendor \in Vendors
    /\ \A a \in Aliases : alias[a].product \in Products
    /\ \A l \in Licenses : license[l] \in Products

\* Names of vendors, aliases, and keys of products are there once; two products
\* of one key have no edition, which the unique index does not compare.
KeysOnce ==
    /\ \A v, w \in Vendors : vendor[v] = vendor[w] => v = w
    /\ \A a, b \in Aliases : alias[a].name = alias[b].name => a = b
    /\ \A p, o \in Products : Clash(product[p], product[o]) => p = o

\* What a save changes in a product its user has changed in the form, unless
\* the row was written since the form was opened, or held a value (from a file)
\* that the form does not offer.
FormsKeepTheRest ==
    [][\A p \in Products : \A f \in {"vendor", "name", "edition", "type", "default"} :
         product'[p] # Gone /\ product'[p][f] # product[p][f] =>
           \/ f = "default" /\ recorded' > recorded
           \/ \E q \in Request : LET r == req[q] IN
                /\ r.pc = "update" /\ r.product = p /\ req'[q] = Idle
                /\ \/ r.posted[f] # r.shown[f]
                   \/ r.stale
                   \/ f = "type" /\ r.read.type \notin WebType
                   \/ f = "default" /\ r.read.default \notin WebDefault]_vars

\* What Evaluate promises about a default status, for every approval at any time.
Meets(default) ==
    LET Instants == 0 .. 2 * Hours - 1 IN
    \A now \in Instants, rec \in Record(Instants) \cup {NoRecord} :
      LET verdict == Evaluate(default, rec, now)
          valid   == rec # NoRecord /\ (rec.expires = -1 \/ Day(now) <= Day(rec.expires))
      IN
      /\ verdict = "allowed" <=>
           \/ default = "globally_approved"
           \/ /\ default = "department_discretion"
              /\ valid
              /\ rec.status = "approved"
              /\ rec.scope = "department_wide" \/ rec.inScope
      /\ verdict = "unreviewed" <=> default \notin DefaultStatus \ {"unknown"}
      /\ verdict \in {"unapproved", "expired"} => default = "department_discretion"

\* The four that the pages offer.
OfferedMeet == \A default \in DefaultStatus : Meets(default)

\* The verdict of a product is that of its default status, unless that leaves
\* it to the department; a department allows only what is left to it, by an
\* approval of this day or a later one.  A status that only a file could store
\* is unreviewed.
VerdictMeetsSpec ==
    /\ OfferedMeet
    /\ \A p \in Products : product[p].default \in DefaultStatus \/ Meets(product[p].default)
=============================================================================
