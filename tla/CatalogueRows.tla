--------------------------- MODULE CatalogueRows ---------------------------
(***************************************************************************)
(* The rows of seasons, products and variants, and the statements a        *)
(* message turns into: toCatalogueCommand and the upserts of the season,   *)
(* product and variant repositories, without transactions.                 *)
(*                                                                         *)
(* A product message is [sku, name, brand, price, season, variants] with   *)
(* season : [name, startingDate, endingDate] and variants : a sequence of  *)
(* [variantCode, color].  Brand stands for every optional attribute of a   *)
(* product that is stored as it came, color for those of a variant.  A     *)
(* stock message is [sku, variants : Seq(code)].  Class validation has     *)
(* run; it lets a null pass for every optional field.                      *)
(***************************************************************************)
EXTENDS Sequences

CONSTANTS
    Undefined, \* the field is missing
    Null,      \* the field is there, with the value null
    Epoch,     \* 1 January 1970
    None       \* no row, or NULL in a column

SeasonRow(name) == <<"Season", name>>
ProductRow(sku) == <<"Product", sku>>
VariantRow(sku, code) == <<"ProductVariant", sku, code>>

Blank(row) ==
    CASE row[1] = "Season"  -> [startsAt |-> None, endsAt |-> None]
      [] row[1] = "Product" -> [name |-> None, brand |-> None, price |-> None, season |-> None]
      [] OTHER              -> [color |-> None]

-----------------------------------------------------------------------------
(* Messages to statements *)

\* An upsert: the fields it writes, and whether it leaves an existing row alone.
Upsert(row, fields) == [row |-> row, fields |-> fields, ensure |-> FALSE]
Ensure(row, fields) == [row |-> row, fields |-> fields, ensure |-> TRUE]

\* new Date(null) is the epoch.
ToDate(value) == IF value = Null THEN Epoch ELSE value

\* A season that is missing or null is no season, and leaves the product's own.
HasSeason(dto) == dto.season \notin {Undefined, Null}

EnsureSeason(season) ==
    Upsert(SeasonRow(season.name),
           [startsAt |-> ToDate(season.startingDate), endsAt |-> ToDate(season.endingDate)])

UpsertProduct(dto) ==
    Upsert(ProductRow(dto.sku),
           [name |-> dto.name, brand |-> dto.brand, price |-> dto.price,
            season |-> IF HasSeason(dto) THEN dto.season.name ELSE Undefined])

UpsertVariants(dto) ==
    [i \in DOMAIN dto.variants |->
        Upsert(VariantRow(dto.sku, dto.variants[i].variantCode),
               [color |-> dto.variants[i].color])]

\* Defect: the variants before the product they belong to.
ApplyCatalogueVariantsFirst(dto) ==
    (IF HasSeason(dto) THEN <<EnsureSeason(dto.season)>> ELSE <<>>)
        \o UpsertVariants(dto) \o <<UpsertProduct(dto)>>

\* StockApplyCatalogueService.apply
ApplyCatalogue(dto) ==
    (IF HasSeason(dto) THEN <<EnsureSeason(dto.season)>> ELSE <<>>)
        \o <<UpsertProduct(dto)>> \o UpsertVariants(dto)

\* Defect: the placeholder's name written over a product that is there.
ApplyStockRenaming(dto) ==
    <<Upsert(ProductRow(dto.sku), [name |-> dto.sku])>>
        \o [i \in DOMAIN dto.variants |-> Ensure(VariantRow(dto.sku, dto.variants[i]), <<>>)]

\* What a stock message does to the catalogue: placeholders, never master data.
ApplyStock(dto) ==
    <<Ensure(ProductRow(dto.sku), [name |-> dto.sku])>>
        \o [i \in DOMAIN dto.variants |-> Ensure(VariantRow(dto.sku, dto.variants[i]), <<>>)]

-----------------------------------------------------------------------------
(* Statements to rows *)

Column(value) == IF value = Null THEN None ELSE value

\* Prisma leaves a column alone whose value is undefined, and empties it for null.
Merge(content, fields) ==
    [f \in DOMAIN content |->
        IF f \in DOMAIN fields /\ fields[f] # Undefined THEN Column(fields[f]) ELSE content[f]]

\* What a row holds after a statement that finds content in it.
AfterStatement(content, s) ==
    IF content = None THEN Merge(Blank(s.row), s.fields)
    ELSE IF s.ensure THEN content
    ELSE Merge(content, s.fields)

\* new Prisma.Decimal(null) throws, before the statement is sent.
Throws(s) == "price" \in DOMAIN s.fields /\ s.fields.price = Null
=============================================================================
