------------------------------ MODULE Warehouse ------------------------------
(* run_warehouse_pipeline on a database file that keeps what earlier runs    *)
(* left: CSV files and events are loaded into staging tables, which SQL      *)
(* scripts turn into dimensions and facts; queries join the two into reports.*)
(* Python commits stage by stage, JavaScript row by row.  Facts refer to the *)
(* surrogate key of a dimension row, and replacing the row gives it a new    *)
(* key: <<id, n>> is the key of its n-th replacement.                        *)
EXTENDS Jobs, Integers, FiniteSetsExt

CONSTANTS
  Customers, Products, Orders, Events, \* identifiers
  NoOne,       \* in an order without a customer of Customers
  Datasets,    \* what the data directory may hold
  Absences       \* sets of files that may be missing

\* What the files of a data directory may say.
Dataset ==
  [customers : SUBSET Customers, prices : [Products -> {"none", "negative", "positive"}],
   orders : UNION {[os -> Customers \cup {NoOne}] : os \in SUBSET Orders},
   items : SUBSET (Orders \X Products), events : SUBSET Events]

ASSUME WarehouseAssumption ==
  /\ NoOne \notin Customers
  /\ Datasets \subseteq Dataset
  /\ Absences \subseteq SUBSET {"customers", "products", "orders", "order_items", "events"}

VARIABLES
  data,        \* the data directory of the run
  missing,     \* the files it lacks
  stage,       \* stages that are done
  db           \* the database

warehouseVars == <<data, missing, stage, db>>

Staging == <<"customers", "products", "orders", "order_items", "events">>
Transforms == <<"dim_customer", "dim_product", "fact_order", "fact_order_item", "fact_event">>
Script == Staging \o Transforms
Now == Script[stage + 1]

\* Staging keeps rows of earlier runs; those with a primary key are replaced.
\* A price is "none" as long as the product is unknown, "negative", or
\* "positive", which includes 0.
EmptyDatabase ==
  [customers |-> {}, prices |-> [p \in Products |-> "none"],
   orders |-> [o \in Orders |-> NoOne], known |-> {}, items |-> {}, events |-> {},
   dim_customer |-> [c \in Customers |-> 0], dim_product |-> [p \in Products |-> 0],
   fact_order |-> {}, fact_order_item |-> {}, fact_event |-> {}]

CustomerKey(d, c) == <<c, d.dim_customer[c]>>
ProductKey(d, p) == <<p, d.dim_product[p]>>

\* Mutant: an upsert that keeps the key of a row that is there.
RenewedInPlace(dim, ids) == [x \in DOMAIN dim |-> IF x \in ids THEN 1 ELSE dim[x]]

\* INSERT OR REPLACE into a dimension: a new surrogate key for every row.
Renewed(dim, ids) == [x \in DOMAIN dim |-> IF x \in ids THEN dim[x] + 1 ELSE dim[x]]

Priced(d) == {p \in Products : d.prices[p] = "positive"}

\* What each stage makes of the database d with the directory f.  The inner
\* joins leave out what has no dimension row; every fact row is a new one.
Effect(s, d, f) ==
  CASE s = "customers" -> [d EXCEPT !.customers = @ \cup f.customers]
    [] s = "products" ->
         [d EXCEPT !.prices = [p \in Products |-> IF f.prices[p] = "none" THEN @[p] ELSE f.prices[p]]]
    [] s = "orders" ->
         [d EXCEPT !.orders = [o \in Orders |-> IF o \in DOMAIN f.orders THEN f.orders[o] ELSE @[o]],
                   !.known = @ \cup DOMAIN f.orders]
    [] s = "order_items" -> [d EXCEPT !.items = @ \cup f.items]
    [] s = "events" -> [d EXCEPT !.events = @ \cup f.events]
    [] s = "dim_customer" -> [d EXCEPT !.dim_customer = Renewed(@, d.customers)]
    [] s = "dim_product" -> [d EXCEPT !.dim_product = Renewed(@, Priced(d))]
    [] s = "fact_order" ->
         [d EXCEPT !.fact_order = @ \cup
            {[order |-> o, key |-> CustomerKey(d, d.orders[o]), run |-> run] :
               o \in {x \in d.known : d.orders[x] # NoOne /\ d.dim_customer[d.orders[x]] > 0}}]
    [] s = "fact_order_item" ->
         [d EXCEPT !.fact_order_item = @ \cup
            {[item |-> i, key |-> ProductKey(d, i[2]), run |-> run] :
               i \in {x \in d.items : d.dim_product[x[2]] > 0}}]
    [] OTHER ->
         [d EXCEPT !.fact_event = @ \cup {[event |-> e, run |-> run] : e \in d.events}]

\* What may be left of the directory f for a stage that fails in its file s.
Parts(s, f) ==
  CASE s = "customers" -> {[f EXCEPT !.customers = x] : x \in SUBSET f.customers}
    [] s = "products" ->
         {[f EXCEPT !.prices = [p \in Products |-> IF p \in x THEN f.prices[p] ELSE "none"]] :
            x \in SUBSET Products}
    [] s = "orders" ->
         {[f EXCEPT !.orders = [o \in x |-> f.orders[o]]] : x \in SUBSET DOMAIN f.orders}
    [] s = "order_items" -> {[f EXCEPT !.items = x] : x \in SUBSET f.items}
    [] OTHER -> {[f EXCEPT !.events = x] : x \in SUBSET f.events}

\* node:sqlite enforces foreign keys, sqlite3 of Python does not: there, a
\* dimension row to which a fact refers cannot be replaced.
Enforced(s, d) ==
  \/ s = "dim_customer" /\ \E c \in d.customers : \E r \in d.fact_order : r.key = CustomerKey(d, c)
  \/ s = "dim_product" /\ \E p \in Priced(d) : \E r \in d.fact_order_item : r.key = ProductKey(d, p)

\* What the queries count: facts joined to a row of their dimension.
JoinedOrders(d) == {r \in d.fact_order : \E c \in Customers : d.dim_customer[c] > 0 /\ r.key = CustomerKey(d, c)}
JoinedItems(d) == {r \in d.fact_order_item : \E p \in Products : d.dim_product[p] > 0 /\ r.key = ProductKey(d, p)}

\* The queries by status and by day do not join a dimension with a new key:
\* they count the orders of earlier runs again.
Reported(d) ==
  [revenue_by_status |-> d.fact_order, customer_spend |-> JoinedOrders(d),
   top_products |-> JoinedItems(d)]

\* The row count of the manifest once n tables are counted, but for the days of
\* dim_date.
Counts(d) ==
  << Cardinality({c \in Customers : d.dim_customer[c] > 0}),
     Cardinality({p \in Products : d.dim_product[p] > 0}),
     Cardinality(d.fact_order), Cardinality(d.fact_order_item), Cardinality(d.fact_event) >>
Counted(d, n) == MapThenSumSet(LAMBDA k : Counts(d)[k], 1 .. n)
WarehouseRows(d) == Counted(d, 5)

-----------------------------------------------------------------------------
WarehouseInit ==
  /\ data = (CHOOSE f \in Datasets : TRUE) /\ missing = {} /\ stage = 0
  /\ db = EmptyDatabase

RunWarehouse ==
  /\ Start("warehouse")
  /\ data' \in Datasets /\ missing' \in Absences
  /\ stage' = 0
  /\ pc' = "load" /\ todo' = <<>> /\ verdict' = Unknown
  /\ UNCHANGED <<job, lang, disk, manifests, faults, db>>

Loading == pc = "load" /\ stage < Len(Script)
Refused == lang = "js" /\ (Now \in missing \/ Enforced(Now, db))

\* A stage is done; Python takes a missing file for an empty one.
StageDone ==
  /\ Loading /\ ~Refused
  /\ db' = IF Now \in missing THEN db ELSE Effect(Now, db, data)
  /\ stage' = stage + 1
  /\ UNCHANGED <<jobVars, data, missing>>

\* A stage fails.  Python rolls back what it did not commit and writes a
\* manifest of a failed run; in JavaScript the rows that were loaded stay.
StageFails ==
  /\ Loading
  /\ \/ Refused /\ UNCHANGED <<faults, db>>
     \/ /\ ~Refused /\ Fault
        /\ db' \in {db} \cup {Effect(Now, db, f) :
                              f \in IF lang = "js" /\ stage < Len(Staging)
                                    THEN Parts(Now, data) ELSE {}}
  /\ \/ lang = "py" /\ pc' = "write" /\ todo' = <<>> /\ verdict' = Verdict("failed", 0)
     \/ lang = "js" /\ EndWith(Unknown)
  /\ UNCHANGED <<job, lang, run, clock, disk, manifests, data, missing, stage>>

\* The queries are run, and their results written if there is a report_dir.
Query ==
  /\ pc = "load" /\ stage = Len(Script)
  /\ pc' = "write"
  /\ todo' \in { <<>>,
       << [file |-> "reports", rows |-> Reported(db)],
          [file |-> "warehouse_summary", rows |-> Reported(db)] >> }
  /\ verdict' = Verdict("success", WarehouseRows(db))
  /\ UNCHANGED <<job, lang, run, clock, disk, manifests, faults, warehouseVars>>

\* A query fails, in Python with the rows of some tables counted.
QueryFails ==
  /\ pc = "load" /\ stage = Len(Script) /\ Fault
  /\ \/ /\ lang = "py" /\ pc' = "write" /\ todo' = <<>>
        /\ verdict' \in {Verdict("failed", Counted(db, n)) : n \in 0 .. 5}
     \/ lang = "js" /\ EndWith(Unknown)
  /\ UNCHANGED <<job, lang, run, clock, disk, manifests, warehouseVars>>

WarehouseNext == RunWarehouse \/ StageDone \/ StageFails \/ Query \/ QueryFails
=============================================================================
