---------------------------- MODULE Migrations -----------------------------
(***************************************************************************)
(* The two descriptions of the database: what the revisions of            *)
(* migrations/versions build, and what models/ declares and the queries   *)
(* are written against.  The tests run over the second, deployments over   *)
(* the first.  Objects are named tuples; column types are left out.        *)
(***************************************************************************)
EXTENDS Naturals, Sequences

\* A table with an id, timestamps (UUIDMixin, TimestampMixin) and columns.
Table(table, columns) ==
  {<<"table", table>>} \cup
  {<<"column", table, c>> : c \in columns \cup {"id", "created_at", "updated_at"}}

Index(name, columns) == <<"index", name, columns>>

Unique(name, columns) == <<"unique", name, columns>>

ForeignKey(table, column, on_delete) == <<"foreign_key", table, column, on_delete>>

\* The columns that never changed, and the limits of a product.
UserColumns == {"email", "hashed_password", "full_name", "role", "is_active"}

SupplierColumns == {"name", "document", "email", "phone", "is_active"}

ProductColumns ==
  {"sku", "name", "description", "unit_price", "quantity", "min_stock", "max_stock",
   "is_active", "supplier_id"}

MovementColumns ==
  {"product_id", "user_id", "type", "quantity", "balance_after", "reason"}

ProductChecks ==
  {<<"check", "ck_product_quantity_non_negative">>,
   <<"check", "ck_product_min_stock_non_negative">>, <<"check", "ck_product_max_ge_min">>}

----------------------------------------------------------------------------
(* The revisions.  A type is created unless it is there (checkfirst);      *)
(* anything else that exists is an error.                                  *)

Initial ==
  [types |-> {"user_role", "movement_type"},
   drops |-> {},
   creates |->
     Table("users", UserColumns) \cup
     Table("suppliers", SupplierColumns) \cup
     Table("products", ProductColumns) \cup
     Table("stock_movements", MovementColumns) \cup
     ProductChecks \cup
     {ForeignKey("products", "supplier_id", "RESTRICT"),
      ForeignKey("stock_movements", "product_id", "CASCADE"),
      ForeignKey("stock_movements", "user_id", "RESTRICT"),
      Unique("ix_users_email", <<"email">>),
      Unique("ix_suppliers_document", <<"document">>),
      Unique("ix_products_sku", <<"sku">>),
      Index("ix_suppliers_name", <<"name">>),
      Index("ix_products_name", <<"name">>),
      Index("ix_products_supplier_id", <<"supplier_id">>),
      Index("ix_stock_movements_product_id", <<"product_id">>),
      Index("ix_stock_movements_user_id", <<"user_id">>),
      Index("ix_stock_movements_product_created", <<"product_id", "created_at">>)}]

StockAlerts ==
  [types |-> {"alert_status"},
   drops |-> {},
   creates |->
     Table("stock_alerts",
           {"product_id", "status", "triggered_quantity", "min_stock_at_trigger",
            "acknowledged_by", "acknowledged_at", "resolved_at"}) \cup
     {ForeignKey("stock_alerts", "product_id", "CASCADE"),
      ForeignKey("stock_alerts", "acknowledged_by", "SET NULL"),
      Index("ix_stock_alerts_product_id", <<"product_id">>),
      Unique("uq_stock_alerts_active_per_product", <<"product_id">>)}]

\* A renamed column goes and comes under its new name.
Overstock ==
  [types |-> {"alert_kind"},
   drops |->
     {<<"column", "stock_alerts", "min_stock_at_trigger">>,
      Unique("uq_stock_alerts_active_per_product", <<"product_id">>)},
   creates |->
     {<<"column", "stock_alerts", "kind">>,
      <<"column", "stock_alerts", "threshold_at_trigger">>,
      Unique("uq_stock_alerts_active_per_product", <<"product_id", "kind">>)}]

Revisions == <<Initial, StockAlerts, Overstock>>

Latest == Len(Revisions)

TypesOf(revision) == {<<"type", t>> : t \in revision.types}

\* What a revision makes of the objects it finds, and when it cannot.
Upgraded(objects, revision) ==
  (objects \ revision.drops) \cup TypesOf(revision) \cup revision.creates

Fails(objects, revision) ==
  revision.creates \cap objects # {} \/ ~(revision.drops \subseteq objects)

\* The objects of the database at each revision.
SchemaAt[n \in 0..Latest] ==
  IF n = 0 THEN {} ELSE Upgraded(SchemaAt[n - 1], Revisions[n])

----------------------------------------------------------------------------
\* Base.metadata, written down by hand from the declarations of models/: what
\* is said of it is as good as that reading.
Metadata ==
  {<<"type", t>> : t \in {"user_role", "movement_type", "alert_status", "alert_kind"}} \cup
  Table("users", UserColumns) \cup
  Table("suppliers", SupplierColumns) \cup
  Table("products", ProductColumns) \cup
  Table("stock_movements", MovementColumns) \cup
  Table("stock_alerts",
        {"product_id", "status", "kind", "triggered_quantity", "threshold_at_trigger",
         "acknowledged_by", "acknowledged_at", "resolved_at"}) \cup
  ProductChecks \cup
  {ForeignKey("products", "supplier_id", "RESTRICT"),
   ForeignKey("stock_movements", "product_id", "CASCADE"),
   ForeignKey("stock_movements", "user_id", "RESTRICT"),
   ForeignKey("stock_alerts", "product_id", "CASCADE"),
   ForeignKey("stock_alerts", "acknowledged_by", "SET NULL"),
   Unique("ix_users_email", <<"email">>),
   Unique("ix_suppliers_document", <<"document">>),
   Unique("ix_products_sku", <<"sku">>),
   Unique("uq_stock_alerts_active_per_product", <<"product_id", "kind">>),
   Index("ix_suppliers_name", <<"name">>),
   Index("ix_products_name", <<"name">>),
   Index("ix_products_supplier_id", <<"supplier_id">>),
   Index("ix_stock_movements_product_id", <<"product_id">>),
   Index("ix_stock_movements_user_id", <<"user_id">>),
   Index("ix_stock_alerts_product_id", <<"product_id">>)}

\* The last revision has all that the models name (and one index more).
ASSUME LatestIsComplete == Metadata \subseteq SchemaAt[Latest]
=============================================================================
