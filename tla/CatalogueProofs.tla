-------------------------- MODULE CatalogueProofs --------------------------
(***************************************************************************)
(* Theorems about Catalogue, for any seasons, products, variants, messages *)
(* and number of ingest calls: types and locks, that product messages do   *)
(* not deadlock with one another, that a name BC gave stays, and that the  *)
(* transactions implement CatalogueLedger.                                 *)
(***************************************************************************)
EXTENDS Catalogue, TLAPS, SequenceTheorems, WellFoundedInduction

(***************************************************************************)
(* The inductive invariant                                                 *)
(*                                                                         *)
(* A call in a transaction has executed the first n statements of the      *)
(* command of its message.  Each of them has the row locked or has left    *)
(* alone a row that is there, and nothing else is locked.  For the ledger, *)
(* the contents after 0, 1, ..., n statements, h[0] to h[n], start at the  *)
(* rows as they are now, not as they were when the call began, and end at  *)
(* what the call sees: whatever others commit meanwhile, its statements    *)
(* might all be executed now.                                              *)
(***************************************************************************)
Executed(w, s) ==
    /\ ~Throws(s)
    /\ \/ s.row \in DOMAIN tx[w].written
       \/ s.ensure /\ rows[s.row] # None

Position(w, C, n) ==
    /\ n \in 0 .. Len(C)
    /\ tx[w].todo = SubSeq(C, n + 1, Len(C))
    /\ \A i \in 1 .. n : Executed(w, C[i])
    /\ \A r \in DOMAIN tx[w].written : \E i \in 1 .. n : C[i].row = r

Effect(contents, s) ==
    [r \in Rows |-> IF r = s.row THEN AfterStatement(contents[r], s) ELSE contents[r]]

Replay(w, C, n, h) ==
    /\ h[0] = rows
    /\ \A i \in 1 .. n : h[i] = Effect(h[i - 1], C[i])
    /\ \A r \in Rows : h[n][r] = Visible(w, r)

FromMessage(w, C) ==
    \/ tx[w].kind = "product" /\ C \in {ApplyCatalogue(d) : d \in ProductDtos}
    \/ tx[w].kind = "stock" /\ C \in {ApplyStock(d) : d \in StockDtos}

OnCourse(w) ==
    \E C \in Commands, n \in Nat :
        /\ FromMessage(w, C)
        /\ Position(w, C, n)
        /\ \E h : Replay(w, C, n, h)

\* A product's name comes from a product message, or there is no product yet.
NamesOK(w) ==
    \A s \in Skus :
        ProductRow(s) \in DOMAIN tx[w].written =>
            \/ /\ tx[w].kind = "product"
               /\ \E d \in ProductDtos :
                     d.sku = s /\ d.name = tx[w].written[ProductRow(s)].name
            \/ tx[w].kind = "stock" /\ rows[ProductRow(s)] = None

Shape ==
    /\ rows = [r \in Rows |-> rows[r]]
    /\ tx = [w \in Workers |-> [kind |-> tx[w].kind, todo |-> tx[w].todo,
                                written |-> tx[w].written]]

CatalogueInv ==
    /\ TypeOK
    /\ Shape
    /\ \A w \in Workers : tx[w] # NoTx => OnCourse(w) /\ NamesOK(w)

-----------------------------------------------------------------------------
(* Rows and statements *)

Columns == {"startsAt", "endsAt", "name", "brand", "price", "season", "color"}

Fields == UNION {[F -> Optional] : F \in SUBSET Columns}

StatementSet == [row : Rows, fields : Fields, ensure : BOOLEAN]

LEMMA FieldsOf ==
    ASSUME NEW F, F \subseteq Columns, NEW fields \in [F -> Optional]
    PROVE  fields \in Fields
  BY DEF Fields

LEMMA FieldsOptional ==
    ASSUME NEW fields \in Fields, NEW f \in DOMAIN fields
    PROVE  fields[f] \in Optional
  BY DEF Fields

\* No two tables share a row.
LEMMA RowsApart ==
    /\ \A n, s : SeasonRow(n) # ProductRow(s)
    /\ \A n, s, c : SeasonRow(n) # VariantRow(s, c)
    /\ \A s, t, c : ProductRow(s) # VariantRow(t, c)
    /\ \A s, t : ProductRow(s) = ProductRow(t) => s = t
    /\ \A s, t, c, e : VariantRow(s, c) = VariantRow(t, e) => s = t /\ c = e
  <1>1. /\ \A n : SeasonRow(n)[1] = "Season"
        /\ \A s : ProductRow(s)[1] = "Product" /\ ProductRow(s)[2] = s
        /\ \A s, c : /\ VariantRow(s, c)[1] = "ProductVariant"
                     /\ VariantRow(s, c)[2] = s
                     /\ VariantRow(s, c)[3] = c
    BY DEF SeasonRow, ProductRow, VariantRow
  <1> QED
    BY <1>1

\* A row without content is created with every column NULL.
LEMMA BlankInContents ==
    ASSUME NEW row \in Rows
    PROVE  Blank(row) \in Contents(row)
  <1>1. \A f \in DOMAIN Blank(row) : Blank(row)[f] = None
    BY DEF Blank
  <1>2. Blank(row) = [f \in DOMAIN Blank(row) |-> Blank(row)[f]]
    BY DEF Blank
  <1> QED
    BY <1>1, <1>2 DEF Contents

\* Undefined fields are left out and nulls become NULL.
LEMMA MergeInContents ==
    ASSUME NEW row \in Rows, NEW content \in Contents(row), NEW fields \in Fields
    PROVE  Merge(content, fields) \in Contents(row)
  <1>1. \A f \in DOMAIN fields : fields[f] \in Optional
    BY FieldsOptional
  <1>2. DOMAIN content = DOMAIN Blank(row)
        /\ \A f \in DOMAIN content : content[f] \in Values \cup {None}
    BY DEF Contents
  <1> QED
    BY <1>1, <1>2 DEF Merge, Column, Contents, Optional

\* A statement leaves content behind, whatever it finds.
LEMMA AfterInContents ==
    ASSUME NEW s \in StatementSet, NEW content, content = None \/ content \in Contents(s.row)
    PROVE  /\ AfterStatement(content, s) \in Contents(s.row)
           /\ AfterStatement(content, s) # None
  <1>1. s.row \in Rows /\ s.fields \in Fields
    BY DEF StatementSet
  <1>2. AfterStatement(content, s) \in Contents(s.row)
    BY <1>1, BlankInContents, MergeInContents DEF AfterStatement
  <1> QED
    BY <1>1, <1>2, ValuesAssumption

\* The ledger's statements are the transactions' statements.
LEMMA SameStatements ==
    /\ \A content, s : Ledger!AfterStatement(content, s) = AfterStatement(content, s)
    /\ \A s : Ledger!Throws(s) <=> Throws(s)
  <1>1. \A row : Ledger!Blank(row) = Blank(row)
    BY DEF Ledger!Blank, Blank
  <1>2. \A content, fields : Ledger!Merge(content, fields) = Merge(content, fields)
    BY DEF Ledger!Merge, Ledger!Column, Merge, Column
  <1> QED
    BY <1>1, <1>2 DEF Ledger!AfterStatement, AfterStatement, Ledger!Throws, Throws

-----------------------------------------------------------------------------
(* Messages *)

LEMMA UpsertTyped ==
    ASSUME NEW row \in Rows, NEW fields \in Fields
    PROVE  Upsert(row, fields) \in StatementSet /\ Ensure(row, fields) \in StatementSet
  BY DEF Upsert, Ensure, StatementSet

\* Fields that may be missing or null are those of a statement.
LEMMA SeasonTyped ==
    ASSUME NEW d \in ProductDtos, HasSeason(d)
    PROVE  EnsureSeason(d.season) \in StatementSet
  <1>1. d.season \in SeasonDto
    BY MessagesAssumption DEF HasSeason, ProductDto
  <1>2. SeasonRow(d.season.name) \in Rows
    BY <1>1 DEF SeasonDto, Rows
  <1> DEFINE fields == [startsAt |-> ToDate(d.season.startingDate),
                        endsAt |-> ToDate(d.season.endingDate)]
  <1>3. ToDate(d.season.startingDate) \in Optional /\ ToDate(d.season.endingDate) \in Optional
    BY <1>1, ValuesAssumption DEF SeasonDto, ToDate, Optional
  <1>4. fields \in [{"startsAt", "endsAt"} -> Optional]
    BY <1>3
  <1>5. fields \in Fields
    <2> HIDE DEF fields
    <2>1. {"startsAt", "endsAt"} \subseteq Columns
      BY DEF Columns
    <2> QED
      BY <1>4, <2>1, FieldsOf
  <1> HIDE DEF fields
  <1>6. Upsert(SeasonRow(d.season.name), fields) \in StatementSet
    BY <1>2, <1>5, UpsertTyped
  <1> QED
    BY <1>6 DEF EnsureSeason, fields

LEMMA ProductTyped ==
    ASSUME NEW d \in ProductDtos
    PROVE  /\ UpsertProduct(d) \in StatementSet
           /\ UpsertProduct(d).row = ProductRow(d.sku)
           /\ d.sku \in Skus
           /\ "name" \in DOMAIN UpsertProduct(d).fields
           /\ UpsertProduct(d).fields.name = d.name
           /\ ~UpsertProduct(d).ensure
           /\ d.name \in Values
  <1>1. d \in ProductDto
    BY MessagesAssumption
  <1>2. ProductRow(d.sku) \in Rows
    BY <1>1 DEF ProductDto, Rows
  <1> DEFINE season == IF HasSeason(d) THEN d.season.name ELSE Undefined
             fields == [name |-> d.name, brand |-> d.brand, price |-> d.price, season |-> season]
  <1>3. season \in Optional
    BY <1>1, ValuesAssumption DEF ProductDto, SeasonDto, HasSeason, Optional
  <1>4. fields \in [{"name", "brand", "price", "season"} -> Optional]
    <2> HIDE DEF season
    <2> QED
      BY <1>1, <1>3 DEF ProductDto, Optional
  <1>5. fields \in Fields /\ "name" \in DOMAIN fields /\ fields.name = d.name
    <2>1. {"name", "brand", "price", "season"} \subseteq Columns
      BY DEF Columns
    <2>2. "name" \in DOMAIN fields /\ fields.name = d.name
      OBVIOUS
    <2> HIDE DEF fields
    <2> QED
      BY <1>4, <2>1, <2>2, FieldsOf
  <1>6. UpsertProduct(d) = Upsert(ProductRow(d.sku), fields)
    BY DEF UpsertProduct
  <1> HIDE DEF fields
  <1>7. UpsertProduct(d) \in StatementSet
    BY <1>2, <1>5, <1>6, UpsertTyped
  <1>8. d.sku \in Skus /\ d.name \in Values
    BY <1>1 DEF ProductDto
  <1> QED
    BY <1>5, <1>6, <1>7, <1>8 DEF Upsert

LEMMA VariantsTyped ==
    ASSUME NEW d \in ProductDtos
    PROVE  /\ UpsertVariants(d) \in Seq(StatementSet)
           /\ \A i \in 1 .. Len(UpsertVariants(d)) :
                 /\ ~UpsertVariants(d)[i].ensure
                 /\ \E c \in Codes : UpsertVariants(d)[i].row = VariantRow(d.sku, c)
  <1> DEFINE v == d.variants
             Sent == [variantCode : Codes, color : Optional]
             statement(i) == Upsert(VariantRow(d.sku, v[i].variantCode), [color |-> v[i].color])
  <1>1. d \in ProductDto
    BY MessagesAssumption
  <1>2. v \in Seq(Sent) /\ d.sku \in Skus
    BY <1>1 DEF ProductDto
  <1>3. Len(v) \in Nat /\ DOMAIN v = 1 .. Len(v) /\ \A i \in 1 .. Len(v) : v[i] \in Sent
    <2> HIDE DEF v, Sent
    <2> QED
      BY <1>2
  <1>4. UpsertVariants(d) = [i \in 1 .. Len(v) |-> statement(i)]
    BY <1>3 DEF UpsertVariants
  <1>5. ASSUME NEW i \in 1 .. Len(v)
        PROVE  /\ statement(i) \in StatementSet
               /\ ~statement(i).ensure
               /\ \E c \in Codes : statement(i).row = VariantRow(d.sku, c)
    <2>1. v[i] \in Sent
      BY <1>3
    <2> HIDE DEF v
    <2>2. v[i].variantCode \in Codes /\ v[i].color \in Optional
      BY <2>1
    <2>3. VariantRow(d.sku, v[i].variantCode) \in Rows
      BY <1>2, <2>2 DEF Rows
    <2>4. [color |-> v[i].color] \in [{"color"} -> Optional]
      BY <2>2
    <2>5. [color |-> v[i].color] \in Fields
      <3>1. {"color"} \subseteq Columns
        BY DEF Columns
      <3> QED
        BY <2>4, <3>1, FieldsOf
    <2>6. statement(i) \in StatementSet
      BY <2>3, <2>5, UpsertTyped
    <2> QED
      BY <2>2, <2>6 DEF Upsert
  <1> HIDE DEF v, statement
  <1>6. Len(UpsertVariants(d)) = Len(v)
    BY <1>3, <1>4
  <1>7. UpsertVariants(d) \in Seq(StatementSet)
    BY <1>3, <1>4, <1>5
  <1> QED
    BY <1>4, <1>5, <1>6, <1>7

\* A product message: its season if it has one, the product, the variants.
LEMMA ProductCommand ==
    ASSUME NEW d \in ProductDtos
    PROVE  \E k \in {0, 1} :
              /\ ApplyCatalogue(d) \in Seq(StatementSet)
              /\ Len(ApplyCatalogue(d)) >= k + 1
              /\ ApplyCatalogue(d)[k + 1] = UpsertProduct(d)
              /\ \A i \in 1 .. Len(ApplyCatalogue(d)) :
                    /\ ~ApplyCatalogue(d)[i].ensure
                    /\ i < k + 1 => \E n \in Seasons : ApplyCatalogue(d)[i].row = SeasonRow(n)
                    /\ i > k + 1 => \E c \in Codes : ApplyCatalogue(d)[i].row = VariantRow(d.sku, c)
  <1> DEFINE first == IF HasSeason(d) THEN <<EnsureSeason(d.season)>> ELSE <<>>
             product == UpsertProduct(d)
             variants == UpsertVariants(d)
  <1>1. /\ first \in Seq(StatementSet)
        /\ Len(first) \in {0, 1}
        /\ \A i \in 1 .. Len(first) :
              ~first[i].ensure /\ \E n \in Seasons : first[i].row = SeasonRow(n)
    <2>1. CASE ~HasSeason(d)
      BY <2>1
    <2>2. CASE HasSeason(d)
      <3>1. d.season.name \in Seasons
        BY <2>2, MessagesAssumption DEF ProductDto, SeasonDto, HasSeason
      <3>2. ~EnsureSeason(d.season).ensure /\ EnsureSeason(d.season).row = SeasonRow(d.season.name)
        BY DEF EnsureSeason, Upsert
      <3> QED
        BY <2>2, <3>1, <3>2, SeasonTyped
    <2> QED
      BY <2>1, <2>2
  <1>2. product \in StatementSet /\ ~product.ensure
    BY ProductTyped
  <1>3. /\ variants \in Seq(StatementSet)
        /\ \A i \in 1 .. Len(variants) :
              /\ ~variants[i].ensure
              /\ \E c \in Codes : variants[i].row = VariantRow(d.sku, c)
    BY VariantsTyped
  <1>4. ApplyCatalogue(d) = (first \o <<product>>) \o variants
    BY DEF ApplyCatalogue
  <1> HIDE DEF first, product, variants
  <1> DEFINE begin == first \o <<product>>
  <1>5. /\ begin \in Seq(StatementSet)
        /\ Len(begin) = Len(first) + 1
        /\ \A i \in 1 .. Len(first) : begin[i] = first[i]
        /\ begin[Len(first) + 1] = product
    <2>1. <<product>> \in Seq(StatementSet) /\ Len(<<product>>) = 1 /\ <<product>>[1] = product
      BY <1>2
    <2> QED
      BY <1>1, <2>1, ConcatProperties
  <1> HIDE DEF begin
  <1>6. /\ begin \o variants \in Seq(StatementSet)
        /\ Len(begin \o variants) = Len(begin) + Len(variants)
        /\ \A i \in 1 .. Len(begin) + Len(variants) :
              (begin \o variants)[i] = IF i <= Len(begin) THEN begin[i] ELSE variants[i - Len(begin)]
    BY <1>3, <1>5, ConcatProperties
  <1> DEFINE C == begin \o variants
             k == Len(first)
  <1>7. Len(variants) \in Nat /\ k \in {0, 1} /\ Len(begin) = k + 1
    BY <1>1, <1>3, <1>5
  <1>8. /\ C \in Seq(StatementSet)
        /\ Len(C) = k + 1 + Len(variants)
        /\ C[k + 1] = product
        /\ \A i \in 1 .. k : C[i] = first[i]
        /\ \A i \in k + 2 .. Len(C) : C[i] = variants[i - (k + 1)]
    BY <1>5, <1>6, <1>7
  <1> HIDE DEF C, k
  <1>9. ASSUME NEW i \in 1 .. Len(C)
        PROVE  /\ ~C[i].ensure
               /\ i < k + 1 => \E n \in Seasons : C[i].row = SeasonRow(n)
               /\ i > k + 1 => \E c \in Codes : C[i].row = VariantRow(d.sku, c)
    <2>1. CASE i < k + 1
      BY <2>1, <1>1, <1>7, <1>8 DEF k
    <2>2. CASE i = k + 1
      BY <2>2, <1>2, <1>7, <1>8
    <2>3. CASE i > k + 1
      <3>1. i \in k + 2 .. Len(C) /\ i - (k + 1) \in 1 .. Len(variants)
        BY <2>3, <1>7, <1>8
      <3> QED
        BY <2>3, <3>1, <1>3, <1>7, <1>8
    <2> QED
      BY <2>1, <2>2, <2>3, <1>7
  <1>10. C = ApplyCatalogue(d)
    BY <1>4 DEF C, begin
  <1> QED
    BY <1>7, <1>8, <1>9, <1>10 DEF product

\* A stock message: placeholders only, of its product and of its variants.
LEMMA StockCommand ==
    ASSUME NEW d \in StockDtos
    PROVE  /\ ApplyStock(d) \in Seq(StatementSet)
           /\ \A i \in 1 .. Len(ApplyStock(d)) :
                 ApplyStock(d)[i].ensure /\ ~Throws(ApplyStock(d)[i])
  <1> DEFINE v == d.variants
             product == Ensure(ProductRow(d.sku), [name |-> d.sku])
             statement(i) == Ensure(VariantRow(d.sku, v[i]), <<>>)
             placeholders == [i \in DOMAIN v |-> statement(i)]
  <1>1. d.sku \in Skus /\ v \in Seq(Codes)
    BY MessagesAssumption DEF StockDto
  <1>2. product \in StatementSet /\ product.ensure /\ ~Throws(product)
    <2>1. d.sku \in Optional
      BY <1>1, ValuesAssumption DEF Optional
    <2>2. [name |-> d.sku] \in [{"name"} -> Optional]
      BY <2>1
    <2>3. {"name"} \subseteq Columns
      BY DEF Columns
    <2>4. [name |-> d.sku] \in Fields
      BY <2>2, <2>3, FieldsOf
    <2>5. ProductRow(d.sku) \in Rows
      BY <1>1 DEF Rows
    <2> QED
      BY <2>4, <2>5, UpsertTyped DEF Ensure, Throws
  <1>3. Len(v) \in Nat /\ DOMAIN v = 1 .. Len(v) /\ \A i \in 1 .. Len(v) : v[i] \in Codes
    <2> HIDE DEF v
    <2> QED
      BY <1>1
  <1>4. ASSUME NEW i \in 1 .. Len(v)
        PROVE  statement(i) \in StatementSet /\ statement(i).ensure /\ ~Throws(statement(i))
    <2>1. VariantRow(d.sku, v[i]) \in Rows
      BY <1>1, <1>3 DEF Rows
    <2>2. <<>> \in Fields
      <3>1. <<>> \in [{} -> Optional] /\ {} \subseteq Columns
        BY DEF Columns
      <3> QED
        BY <3>1, FieldsOf
    <2> QED
      BY <2>1, <2>2, UpsertTyped DEF Ensure, Throws
  <1>5. ApplyStock(d) = <<product>> \o placeholders
    BY DEF ApplyStock
  <1> HIDE DEF v, product, statement
  <1>6. placeholders \in Seq(StatementSet) /\ Len(placeholders) = Len(v)
    BY <1>3, <1>4
  <1>7. \A i \in 1 .. Len(placeholders) : placeholders[i].ensure /\ ~Throws(placeholders[i])
    BY <1>3, <1>4, <1>6
  <1> HIDE DEF placeholders
  <1>8. <<product>> \in Seq(StatementSet) /\ Len(<<product>>) = 1 /\ <<product>>[1] = product
    BY <1>2
  <1>9. /\ <<product>> \o placeholders \in Seq(StatementSet)
        /\ Len(<<product>> \o placeholders) = Len(<<product>>) + Len(placeholders)
        /\ \A i \in 1 .. Len(<<product>>) + Len(placeholders) :
              (<<product>> \o placeholders)[i] =
                  IF i <= Len(<<product>>) THEN <<product>>[i]
                                           ELSE placeholders[i - Len(<<product>>)]
    BY <1>6, <1>8, ConcatProperties
  <1>10. Len(placeholders) \in Nat
    BY <1>3, <1>6
  <1> DEFINE C == <<product>> \o placeholders
  <1>11. /\ C \in Seq(StatementSet)
         /\ Len(C) = 1 + Len(placeholders)
         /\ C[1] = product
         /\ \A i \in 2 .. Len(C) : C[i] = placeholders[i - 1]
    BY <1>8, <1>9, <1>10
  <1> HIDE DEF C
  <1>12. ASSUME NEW i \in 1 .. Len(C) PROVE C[i].ensure /\ ~Throws(C[i])
    <2>1. CASE i = 1
      BY <2>1, <1>2, <1>11
    <2>2. CASE i # 1
      <3>1. i \in 2 .. Len(C) /\ i - 1 \in 1 .. Len(placeholders)
        BY <2>2, <1>10, <1>11
      <3> QED
        BY <3>1, <1>7, <1>11
    <2> QED
      BY <2>1, <2>2
  <1>13. C = ApplyStock(d)
    BY <1>5 DEF C
  <1> QED
    BY <1>11, <1>12, <1>13

\* A placeholder has no price to convert.
LEMMA StockNeverThrows ==
    ASSUME NEW C \in {ApplyStock(d) : d \in StockDtos}, NEW i \in 1 .. Len(C)
    PROVE  ~Throws(C[i])
  <1>1. PICK d \in StockDtos : C = ApplyStock(d)
    OBVIOUS
  <1> QED
    BY <1>1, StockCommand

LEMMA CommandsTyped ==
    ASSUME NEW C \in Commands
    PROVE  C \in Seq(StatementSet)
  BY ProductCommand, StockCommand DEF Commands

-----------------------------------------------------------------------------
(* What a call is in the middle of *)

\* What is left of a command after n statements.
LEMMA NextStatement ==
    ASSUME NEW C \in Seq(StatementSet), NEW n \in 0 .. Len(C)
    PROVE  /\ SubSeq(C, n + 1, Len(C)) # <<>> <=> n < Len(C)
           /\ n < Len(C) =>
                 /\ Head(SubSeq(C, n + 1, Len(C))) = C[n + 1]
                 /\ Tail(SubSeq(C, n + 1, Len(C))) = SubSeq(C, (n + 1) + 1, Len(C))
                 /\ C[n + 1] \in StatementSet
                 /\ C[n + 1].row \in Rows
                 /\ n + 1 \in 0 .. Len(C)
  <1>1. Len(C) \in Nat /\ n \in Nat
    OBVIOUS
  <1>2. CASE n = Len(C)
    <2>1. SubSeq(C, n + 1, Len(C)) = <<>>
      BY <1>1, <1>2, SubSeqEmpty
    <2> QED
      BY <1>1, <1>2, <2>1
  <1>3. CASE n < Len(C)
    <2>1. n + 1 \in 1 .. Len(C) /\ Len(C) \in n + 1 .. Len(C)
      BY <1>1, <1>3
    <2>2. /\ Head(SubSeq(C, n + 1, Len(C))) = C[n + 1]
          /\ Tail(SubSeq(C, n + 1, Len(C))) = SubSeq(C, (n + 1) + 1, Len(C))
      BY <2>1, HeadTailOfSubSeq
    <2>3. Len(SubSeq(C, n + 1, Len(C))) = Len(C) - (n + 1) + 1
      <3>1. \A i \in n + 1 .. Len(C) : C[i] \in StatementSet
        BY <1>1
      <3> QED
        BY <1>1, <2>1, <3>1, SubSeqProperties
    <2>4. SubSeq(C, n + 1, Len(C)) # <<>>
      <3>1. Len(<<>>) = 0 /\ Len(C) - (n + 1) + 1 # 0
        BY <1>1, <1>3
      <3> QED
        BY <2>3, <3>1
    <2>5. C[n + 1] \in StatementSet
      BY <2>1
    <2> QED
      BY <1>1, <1>3, <2>1, <2>2, <2>4, <2>5 DEF StatementSet
  <1> QED
    BY <1>1, <1>2, <1>3

\* The call and the next of its statements.
LEMMA CurrentStatement ==
    ASSUME NEW w \in Workers, NEW C \in Commands, NEW n \in Nat, Position(w, C, n)
    PROVE  /\ C \in Seq(StatementSet)
           /\ n \in 0 .. Len(C)
           /\ Sending(w) <=> n < Len(C)
           /\ n < Len(C) => /\ Statement(w) = C[n + 1]
                            /\ Tail(tx[w].todo) = SubSeq(C, (n + 1) + 1, Len(C))
                            /\ C[n + 1] \in StatementSet
                            /\ C[n + 1].row \in Rows
                            /\ n + 1 \in 0 .. Len(C)
  <1>1. C \in Seq(StatementSet)
    BY CommandsTyped
  <1>2. n \in 0 .. Len(C) /\ tx[w].todo = SubSeq(C, n + 1, Len(C))
    BY DEF Position
  <1> QED
    BY <1>1, <1>2, NextStatement DEF Sending, Statement

\* A call that does nothing stays on course while nothing is committed.
LEMMA Bystander ==
    ASSUME NEW o \in Workers, rows' = rows, tx'[o] = tx[o],
           tx[o] # NoTx => OnCourse(o) /\ NamesOK(o)
    PROVE  (tx[o] # NoTx => OnCourse(o) /\ NamesOK(o))'
  <1>1. SUFFICES ASSUME tx[o] # NoTx PROVE (OnCourse(o) /\ NamesOK(o))'
    OBVIOUS
  <1>2. NamesOK(o)'
    BY <1>1 DEF NamesOK
  <1>3. PICK C, n, h :
            /\ C \in Commands /\ n \in Nat
            /\ FromMessage(o, C) /\ Position(o, C, n) /\ Replay(o, C, n, h)
    BY <1>1 DEF OnCourse
  <1>4. FromMessage(o, C)'
    BY <1>3 DEF FromMessage
  <1>5. Position(o, C, n)'
    BY <1>3 DEF Position, Executed
  <1>6. Replay(o, C, n, h)'
    BY <1>3 DEF Replay, Visible
  <1> QED
    BY <1>2, <1>3, <1>4, <1>5, <1>6 DEF OnCourse

\* One more statement whose effect the call sees.
LEMMA ReplayOneMore ==
    ASSUME NEW w \in Workers, NEW C \in Seq(StatementSet), NEW n \in 0 .. Len(C), n < Len(C),
           NEW h, Replay(w, C, n, h), rows' = rows,
           \A r \in Rows : Visible(w, r)' = IF r = C[n + 1].row
                                            THEN AfterStatement(Visible(w, r), C[n + 1])
                                            ELSE Visible(w, r)
    PROVE  \E g : Replay(w, C, n + 1, g)'
  <1> DEFINE g == [i \in 0 .. n + 1 |-> IF i <= n THEN h[i] ELSE Effect(h[n], C[n + 1])]
  <1>0. n \in Nat
    OBVIOUS
  <1>1. \A i \in 0 .. n : g[i] = h[i]
    BY <1>0
  <1>2. g[n + 1] = Effect(h[n], C[n + 1])
    BY <1>0
  <1>3. \E f : f = g
    OBVIOUS
  <1> HIDE DEF g
  <1>4. g[0] = rows'
    BY <1>0, <1>1 DEF Replay
  <1>5. ASSUME NEW i \in 1 .. n + 1 PROVE g[i] = Effect(g[i - 1], C[i])
    <2>1. CASE i = n + 1
      <3>1. g[n] = h[n]
        BY <1>0, <1>1
      <3>2. g[i] = Effect(h[n], C[i]) /\ i - 1 = n
        BY <1>0, <1>2, <2>1
      <3> QED
        BY <3>1, <3>2
    <2>2. CASE i # n + 1
      <3>1. i \in 1 .. n /\ i \in 0 .. n /\ i - 1 \in 0 .. n
        BY <1>0, <2>2
      <3>2. g[i] = h[i] /\ g[i - 1] = h[i - 1] /\ h[i] = Effect(h[i - 1], C[i])
        BY <3>1, <1>1 DEF Replay
      <3> QED
        BY <3>2
    <2> QED
      BY <2>1, <2>2
  <1>6. ASSUME NEW r \in Rows PROVE g[n + 1][r] = Visible(w, r)'
    <2>1. h[n][r] = Visible(w, r)
      BY DEF Replay
    <2> QED
      BY <1>2, <2>1 DEF Effect
  <1>7. Replay(w, C, n + 1, g)'
    BY <1>4, <1>5, <1>6 DEF Replay
  <1> QED
    BY <1>7

-----------------------------------------------------------------------------
(* The actions *)

\* The transaction of one call changes; the calls and rows keep their shape.
LEMMA OneCall ==
    ASSUME Shape, NEW w \in Workers, NEW X, tx' = [tx EXCEPT ![w] = X]
    PROVE  tx' = [v \in Workers |-> IF v = w THEN X ELSE tx[v]]
  <1>1. DOMAIN tx = Workers
    BY DEF Shape
  <1> QED
    BY <1>1

LEMMA ShapeKept ==
    ASSUME Shape, rows' = rows, NEW w \in Workers,
           NEW X, X = [kind |-> X.kind, todo |-> X.todo, written |-> X.written],
           tx' = [tx EXCEPT ![w] = X]
    PROVE  Shape' /\ tx'[w] = X /\ \A o \in Workers \ {w} : tx'[o] = tx[o]
  <1>1. tx' = [v \in Workers |-> IF v = w THEN X ELSE tx[v]]
    BY OneCall
  <1>2. \A v \in Workers : tx[v] = [kind |-> tx[v].kind, todo |-> tx[v].todo,
                                    written |-> tx[v].written]
    BY DEF Shape
  <1>3. \A v \in Workers : tx'[v] = [kind |-> tx'[v].kind, todo |-> tx'[v].todo,
                                     written |-> tx'[v].written]
    BY <1>1, <1>2
  <1>4. tx' = [v \in Workers |-> tx'[v]]
    BY <1>1
  <1>5. Shape'
    BY <1>3, <1>4 DEF Shape
  <1> QED
    BY <1>1, <1>5

LEMMA FieldReplaced ==
    ASSUME NEW X, X = [kind |-> X.kind, todo |-> X.todo, written |-> X.written], NEW todo
    PROVE  [X EXCEPT !.todo = todo] = [kind |-> X.kind, todo |-> todo, written |-> X.written]
  <1>1. DOMAIN X = {"kind", "todo", "written"}
    OBVIOUS
  <1> QED
    BY <1>1

LEMMA BeginKeeps ==
    ASSUME CatalogueInv, NEW w \in Workers, NEW C \in Commands, NEW kind,
           \/ kind = "product" /\ C \in {ApplyCatalogue(d) : d \in ProductDtos}
           \/ kind = "stock" /\ C \in {ApplyStock(d) : d \in StockDtos},
           Begin(w, kind, C)
    PROVE  CatalogueInv'
  <1>1. /\ tx[w] = NoTx /\ messages < MaxMessages /\ messages' = messages + 1 /\ rows' = rows
        /\ tx' = [tx EXCEPT ![w] = [kind |-> kind, todo |-> C, written |-> <<>>]]
    BY DEF Begin
  <1>2. /\ Shape'
        /\ tx'[w] = [kind |-> kind, todo |-> C, written |-> <<>>]
        /\ \A o \in Workers \ {w} : tx'[o] = tx[o]
    <2> DEFINE X == [kind |-> kind, todo |-> C, written |-> <<>>]
    <2>1. X = [kind |-> X.kind, todo |-> X.todo, written |-> X.written]
      OBVIOUS
    <2>2. tx' = [tx EXCEPT ![w] = X]
      BY <1>1
    <2> HIDE DEF X
    <2>3. Shape' /\ tx'[w] = X /\ \A o \in Workers \ {w} : tx'[o] = tx[o]
      BY <1>1, <2>1, <2>2, ShapeKept DEF CatalogueInv
    <2> QED
      BY <2>3 DEF X
  <1>3. DOMAIN tx'[w].written = {} /\ tx'[w].kind = kind /\ tx'[w].todo = C
    BY <1>2
  <1>4. C \in Seq(StatementSet)
    BY CommandsTyped
  <1>5. OnCourse(w)'
    <2>1. FromMessage(w, C)'
      BY <1>3 DEF FromMessage
    <2>2. Position(w, C, 0)'
      <3>1. SubSeq(C, 0 + 1, Len(C)) = C /\ Len(C) \in Nat
        BY <1>4, SubSeqFull
      <3> QED
        BY <1>3, <3>1 DEF Position
    <2>3. \E h : Replay(w, C, 0, h)'
      <3>1. \E h : h = [i \in {0} |-> rows]
        OBVIOUS
      <3>2. PICK h : h = [i \in {0} |-> rows]
        BY <3>1
      <3>3. Replay(w, C, 0, h)'
        BY <1>1, <1>3, <3>2 DEF Replay, Visible
      <3> QED
        BY <3>3
    <2> QED
      BY <2>1, <2>2, <2>3 DEF OnCourse
  <1>6. NamesOK(w)'
    BY <1>3 DEF NamesOK
  <1>7. \A o \in Workers : (tx[o] # NoTx => OnCourse(o) /\ NamesOK(o))'
    <2>1. ASSUME NEW o \in Workers \ {w} PROVE (tx[o] # NoTx => OnCourse(o) /\ NamesOK(o))'
      BY <1>1, <1>2, Bystander DEF CatalogueInv
    <2> QED
      BY <1>5, <1>6, <2>1
  <1>8. TypeOK'
    <2>1. messages' \in 0 .. MaxMessages
      BY <1>1, MessagesAssumption DEF CatalogueInv, TypeOK
    <2>2. kind \in {"product", "stock"}
      OBVIOUS
    <2> QED
      BY <1>1, <1>2, <1>3, <2>1, <2>2 DEF CatalogueInv, TypeOK, Locked
  <1> QED
    BY <1>2, <1>7, <1>8 DEF CatalogueInv

LEMMA FindRowKeeps ==
    ASSUME CatalogueInv, NEW w \in Workers, FindRow(w)
    PROVE  CatalogueInv'
  <1>1. /\ Sending(w) /\ LeavesAlone(w) /\ rows' = rows /\ messages' = messages
        /\ tx' = [tx EXCEPT ![w].todo = Tail(@)]
    BY DEF FindRow
  <1>2. tx[w] # NoTx
    BY <1>1 DEF Sending, NoTx
  <1>3. tx[w] = [kind |-> tx[w].kind, todo |-> tx[w].todo, written |-> tx[w].written]
    BY DEF CatalogueInv, Shape
  <1>4. /\ Shape'
        /\ tx'[w] = [kind |-> tx[w].kind, todo |-> Tail(tx[w].todo), written |-> tx[w].written]
        /\ \A o \in Workers \ {w} : tx'[o] = tx[o]
    <2> DEFINE X == [kind |-> tx[w].kind, todo |-> Tail(tx[w].todo), written |-> tx[w].written]
    <2>1. X = [kind |-> X.kind, todo |-> X.todo, written |-> X.written]
      OBVIOUS
    <2>2. tx' = [tx EXCEPT ![w] = X]
      <3>1. tx' = [tx EXCEPT ![w] = [tx[w] EXCEPT !.todo = Tail(tx[w].todo)]]
        BY <1>1
      <3>2. [tx[w] EXCEPT !.todo = Tail(tx[w].todo)] = X
        BY <1>3, FieldReplaced
      <3> HIDE DEF X
      <3> QED
        BY <3>1, <3>2
    <2> HIDE DEF X
    <2>3. Shape' /\ tx'[w] = X /\ \A o \in Workers \ {w} : tx'[o] = tx[o]
      BY <1>1, <2>1, <2>2, ShapeKept DEF CatalogueInv
    <2> QED
      BY <2>3 DEF X
  <1>5. /\ tx'[w].kind = tx[w].kind
        /\ tx'[w].todo = Tail(tx[w].todo)
        /\ tx'[w].written = tx[w].written
    BY <1>4
  <1>6. OnCourse(w)'
    <2>1. PICK C, n, h :
              /\ C \in Commands /\ n \in Nat
              /\ FromMessage(w, C) /\ Position(w, C, n) /\ Replay(w, C, n, h)
      BY <1>2 DEF CatalogueInv, OnCourse
    <2>2. /\ C \in Seq(StatementSet) /\ n \in 0 .. Len(C) /\ n < Len(C)
          /\ Statement(w) = C[n + 1]
          /\ Tail(tx[w].todo) = SubSeq(C, (n + 1) + 1, Len(C))
          /\ C[n + 1].row \in Rows
          /\ n + 1 \in 0 .. Len(C)
      BY <1>1, <2>1, CurrentStatement
    <2>3. C[n + 1].ensure /\ Visible(w, C[n + 1].row) # None
      BY <1>1, <2>2 DEF LeavesAlone
    <2>4. FromMessage(w, C)'
      BY <1>5, <2>1 DEF FromMessage
    <2>5. Position(w, C, n + 1)'
      <3>1. \A i \in 1 .. n : Executed(w, C[i])'
        BY <1>1, <1>5, <2>1 DEF Position, Executed
      <3>2. Executed(w, C[n + 1])'
        <4>1. ~Throws(C[n + 1])
          <5>1. C \in {ApplyStock(d) : d \in StockDtos}
            <6>1. n + 1 \in 1 .. Len(C)
              BY <2>2
            <6>2. \A d \in ProductDtos : C # ApplyCatalogue(d)
              BY <2>3, <6>1, ProductCommand
            <6> QED
              BY <2>1, <6>2 DEF Commands
          <5> QED
            BY <5>1, <2>2, StockNeverThrows
        <4>2. C[n + 1].row \in DOMAIN tx[w].written \/ rows[C[n + 1].row] # None
          BY <2>3 DEF Visible
        <4> QED
          BY <1>1, <1>5, <2>3, <4>1, <4>2 DEF Executed
      <3>3. \A i \in 1 .. n + 1 : i = n + 1 \/ i \in 1 .. n
        BY <2>2
      <3>4. \A r \in DOMAIN tx'[w].written : \E i \in 1 .. n + 1 : C[i].row = r
        BY <1>5, <2>1, <2>2 DEF Position
      <3> QED
        BY <1>5, <2>2, <3>1, <3>2, <3>3, <3>4 DEF Position
    <2>6. \E g : Replay(w, C, n + 1, g)'
      <3>1. ASSUME NEW r \in Rows
            PROVE  Visible(w, r)' = IF r = C[n + 1].row
                                    THEN AfterStatement(Visible(w, r), C[n + 1])
                                    ELSE Visible(w, r)
        <4>1. Visible(w, r)' = Visible(w, r)
          BY <1>1, <1>5 DEF Visible
        <4>2. AfterStatement(Visible(w, C[n + 1].row), C[n + 1]) = Visible(w, C[n + 1].row)
          BY <2>3 DEF AfterStatement
        <4> QED
          BY <4>1, <4>2
      <3> QED
        BY <1>1, <2>1, <2>2, <3>1, ReplayOneMore
    <2> QED
      BY <2>1, <2>2, <2>4, <2>5, <2>6 DEF OnCourse
  <1>7. NamesOK(w)'
    BY <1>1, <1>2, <1>5 DEF NamesOK, CatalogueInv
  <1>8. \A o \in Workers : (tx[o] # NoTx => OnCourse(o) /\ NamesOK(o))'
    <2>1. ASSUME NEW o \in Workers \ {w} PROVE (tx[o] # NoTx => OnCourse(o) /\ NamesOK(o))'
      BY <1>1, <1>4, Bystander DEF CatalogueInv
    <2> QED
      BY <1>6, <1>7, <2>1
  <1>9. TypeOK'
    <2>1. \A o \in Workers : tx'[o].kind = tx[o].kind /\ tx'[o].written = tx[o].written
      BY <1>4, <1>5
    <2> QED
      BY <1>1, <2>1 DEF CatalogueInv, TypeOK, Locked
  <1> QED
    BY <1>4, <1>8, <1>9 DEF CatalogueInv

\* What a call sees of a row is the row's content or none.
LEMMA VisibleTyped ==
    ASSUME TypeOK, NEW w \in Workers, NEW r \in Rows
    PROVE  Visible(w, r) = None \/ Visible(w, r) \in Contents(r)
  BY DEF TypeOK, Visible

\* A product message always writes the product's name.
LEMMA NameWritten ==
    ASSUME NEW d \in ProductDtos, NEW content,
           content = None \/ content \in Contents(ProductRow(d.sku))
    PROVE  AfterStatement(content, UpsertProduct(d)).name = d.name
  <1> DEFINE s == UpsertProduct(d)
             row == ProductRow(d.sku)
  <1>1. /\ s \in StatementSet /\ s.row = row /\ ~s.ensure /\ row \in Rows
        /\ "name" \in DOMAIN s.fields /\ s.fields.name = d.name /\ d.name \in Values
    BY ProductTyped DEF Rows
  <1>2. "name" \in DOMAIN Blank(row)
    <2>1. row[1] = "Product"
      BY DEF ProductRow
    <2> HIDE DEF row
    <2> QED
      BY <2>1 DEF Blank
  <1>3. d.name # Undefined /\ d.name # Null
    BY <1>1, ValuesAssumption
  <1> HIDE DEF s, row
  <1>4. \A c : "name" \in DOMAIN c => Merge(c, s.fields).name = d.name
    BY <1>1, <1>3 DEF Merge, Column
  <1>5. CASE content = None
    BY <1>1, <1>2, <1>4, <1>5 DEF AfterStatement, s
  <1>6. CASE content # None
    <2>1. "name" \in DOMAIN content
      BY <1>2, <1>6 DEF Contents, row
    <2> QED
      BY <1>1, <1>4, <1>6, <2>1 DEF AfterStatement, s
  <1> QED
    BY <1>5, <1>6

LEMMA WriteRowKeeps ==
    ASSUME CatalogueInv, NEW w \in Workers, WriteRow(w)
    PROVE  CatalogueInv'
  <1> DEFINE row == Statement(w).row
             content == AfterStatement(Visible(w, row), Statement(w))
             written == Put(tx[w].written, row, content)
  <1>1. /\ Sending(w) /\ ~LeavesAlone(w) /\ ~Throws(Statement(w)) /\ ~Locked(row, w)
        /\ rows' = rows /\ messages' = messages
        /\ tx' = [tx EXCEPT ![w] = [kind |-> @.kind, todo |-> Tail(@.todo),
                                    written |-> Put(@.written, row, content)]]
    BY DEF WriteRow
  <1>2. tx[w] # NoTx
    BY <1>1 DEF Sending, NoTx
  <1>3. tx[w] = [kind |-> tx[w].kind, todo |-> tx[w].todo, written |-> tx[w].written]
    BY DEF CatalogueInv, Shape
  <1>4. /\ Shape'
        /\ tx'[w] = [kind |-> tx[w].kind, todo |-> Tail(tx[w].todo), written |-> written]
        /\ \A o \in Workers \ {w} : tx'[o] = tx[o]
    <2> DEFINE X == [kind |-> tx[w].kind, todo |-> Tail(tx[w].todo), written |-> written]
    <2>1. X = [kind |-> X.kind, todo |-> X.todo, written |-> X.written]
      OBVIOUS
    <2>2. tx' = [tx EXCEPT ![w] = X]
      BY <1>1
    <2> HIDE DEF X
    <2>3. Shape' /\ tx'[w] = X /\ \A o \in Workers \ {w} : tx'[o] = tx[o]
      BY <1>1, <2>1, <2>2, ShapeKept DEF CatalogueInv
    <2> QED
      BY <2>3 DEF X
  <1>5. PICK C, n, h :
            /\ C \in Commands /\ n \in Nat
            /\ FromMessage(w, C) /\ Position(w, C, n) /\ Replay(w, C, n, h)
    BY <1>2 DEF CatalogueInv, OnCourse
  <1>6. PICK s : s = C[n + 1]
    OBVIOUS
  <1>7. /\ C \in Seq(StatementSet) /\ n \in 0 .. Len(C) /\ n < Len(C)
        /\ Statement(w) = s
        /\ Tail(tx[w].todo) = SubSeq(C, (n + 1) + 1, Len(C))
        /\ s \in StatementSet /\ s.row \in Rows
        /\ n + 1 \in 0 .. Len(C) /\ n + 1 \in 1 .. Len(C)
    <2>1. Sending(w) /\ Position(w, C, n)
      BY <1>1, <1>5
    <2>2. /\ C \in Seq(StatementSet) /\ n \in 0 .. Len(C) /\ n < Len(C)
          /\ Statement(w) = C[n + 1]
          /\ Tail(tx[w].todo) = SubSeq(C, (n + 1) + 1, Len(C))
          /\ C[n + 1] \in StatementSet /\ C[n + 1].row \in Rows
          /\ n + 1 \in 0 .. Len(C)
      BY <1>5, <2>1, CurrentStatement
    <2> QED
      BY <1>6, <2>2
  <1>8. /\ row = s.row /\ content = AfterStatement(Visible(w, s.row), s)
        /\ ~Throws(s) /\ ~Locked(s.row, w)
        /\ ~(s.ensure /\ Visible(w, s.row) # None)
    BY <1>1, <1>7 DEF LeavesAlone
  <1>9. content \in Contents(s.row) /\ content # None
    BY <1>7, <1>8, VisibleTyped, AfterInContents DEF CatalogueInv
  <1> HIDE DEF row, content
  <1>10. /\ DOMAIN written = DOMAIN tx[w].written \cup {s.row}
         /\ written[s.row] = content
         /\ \A r \in DOMAIN tx[w].written : r # s.row => written[r] = tx[w].written[r]
    BY <1>8 DEF Put
  <1> HIDE DEF written
  <1>11. tx'[w].kind = tx[w].kind /\ tx'[w].todo = Tail(tx[w].todo) /\ tx'[w].written = written
    BY <1>4
  <1>12. OnCourse(w)'
    <2>1. FromMessage(w, C)'
      BY <1>5, <1>11 DEF FromMessage
    <2>2. Position(w, C, n + 1)'
      <3>1. \A i \in 1 .. n : Executed(w, C[i])'
        BY <1>1, <1>5, <1>10, <1>11 DEF Position, Executed
      <3>2. Executed(w, C[n + 1])'
        BY <1>6, <1>8, <1>10, <1>11 DEF Executed
      <3>3. \A i \in 1 .. n + 1 : i = n + 1 \/ i \in 1 .. n
        BY <1>7
      <3>4. \A r \in DOMAIN tx'[w].written : \E i \in 1 .. n + 1 : C[i].row = r
        <4>1. \A r \in DOMAIN tx[w].written : \E i \in 1 .. n + 1 : C[i].row = r
          BY <1>5 DEF Position
        <4>2. n + 1 \in 1 .. n + 1
          BY <1>7
        <4> QED
          BY <1>6, <1>10, <1>11, <4>1, <4>2
      <3> QED
        BY <1>7, <1>11, <3>1, <3>2, <3>3, <3>4 DEF Position
    <2>3. \E g : Replay(w, C, n + 1, g)'
      <3>1. ASSUME NEW r \in Rows
            PROVE  Visible(w, r)' = IF r = C[n + 1].row
                                    THEN AfterStatement(Visible(w, r), C[n + 1])
                                    ELSE Visible(w, r)
        BY <1>1, <1>6, <1>8, <1>10, <1>11 DEF Visible
      <3> QED
        BY <1>1, <1>5, <1>7, <3>1, ReplayOneMore
    <2> QED
      BY <1>5, <1>7, <2>1, <2>2, <2>3 DEF OnCourse
  <1>13. NamesOK(w)'
    <2> SUFFICES ASSUME NEW sku \in Skus, ProductRow(sku) \in DOMAIN written
                 PROVE  \/ /\ tx[w].kind = "product"
                           /\ \E d \in ProductDtos :
                                 d.sku = sku /\ d.name = written[ProductRow(sku)].name
                        \/ tx[w].kind = "stock" /\ rows[ProductRow(sku)] = None
      BY <1>1, <1>11 DEF NamesOK
    <2>1. CASE ProductRow(sku) # s.row
      BY <1>2, <1>10, <2>1 DEF NamesOK, CatalogueInv
    <2>2. CASE ProductRow(sku) = s.row /\ tx[w].kind = "product"
                 /\ C \in {ApplyCatalogue(d) : d \in ProductDtos}
      <3>1. PICK d \in ProductDtos : C = ApplyCatalogue(d)
        BY <2>2
      <3>2. PICK k \in {0, 1} :
              /\ Len(C) >= k + 1
              /\ C[k + 1] = UpsertProduct(d)
              /\ \A i \in 1 .. Len(C) :
                    /\ i < k + 1 => \E m \in Seasons : C[i].row = SeasonRow(m)
                    /\ i > k + 1 => \E c \in Codes : C[i].row = VariantRow(d.sku, c)
        BY <3>1, ProductCommand
      <3>3. n + 1 = k + 1
        <4>1. ~(n + 1 < k + 1)
          BY <1>6, <1>7, <2>2, <3>2, RowsApart
        <4>2. ~(n + 1 > k + 1)
          BY <1>6, <1>7, <2>2, <3>2, RowsApart
        <4> QED
          BY <1>7, <4>1, <4>2
      <3>4. s = UpsertProduct(d)
        BY <1>6, <3>2, <3>3
      <3>5. d.sku = sku
        BY <2>2, <3>4, ProductTyped, RowsApart
      <3>6. Visible(w, s.row) = None \/ Visible(w, s.row) \in Contents(s.row)
        BY <1>7, VisibleTyped DEF CatalogueInv
      <3>7. content.name = d.name
        BY <1>8, <2>2, <3>4, <3>5, <3>6, NameWritten DEF content
      <3> QED
        BY <1>10, <2>2, <3>5, <3>7
    <2>3. CASE ProductRow(sku) = s.row /\ tx[w].kind = "stock"
                 /\ C \in {ApplyStock(d) : d \in StockDtos}
      <3>1. s.ensure
        BY <1>6, <1>7, <2>3, StockCommand
      <3>2. Visible(w, s.row) = None
        BY <1>8, <3>1
      <3>3. s.row \notin DOMAIN tx[w].written
        <4>1. \A r \in DOMAIN tx[w].written : r \in Rows /\ tx[w].written[r] \in Contents(r)
          BY DEF CatalogueInv, TypeOK
        <4> QED
          BY <3>2, <4>1, ValuesAssumption DEF Visible
      <3> QED
        BY <2>3, <3>2, <3>3 DEF Visible
    <2> QED
      BY <1>5, <2>1, <2>2, <2>3 DEF FromMessage
  <1>14. \A o \in Workers : (tx[o] # NoTx => OnCourse(o) /\ NamesOK(o))'
    <2>1. ASSUME NEW o \in Workers \ {w} PROVE (tx[o] # NoTx => OnCourse(o) /\ NamesOK(o))'
      BY <1>1, <1>4, Bystander DEF CatalogueInv
    <2> QED
      BY <1>12, <1>13, <2>1
  <1>15. TypeOK'
    <2>1. \A o \in Workers : tx'[o].kind = tx[o].kind
      BY <1>4, <1>11
    <2>2. \A o \in Workers \ {w} : tx'[o].written = tx[o].written
      BY <1>4
    <2>3. \A o \in Workers \ {w} : s.row \notin DOMAIN tx[o].written
      BY <1>8 DEF Locked
    <2>4. ASSUME NEW o \in Workers
          PROVE  /\ DOMAIN tx'[o].written \subseteq Rows
                 /\ \A r \in DOMAIN tx'[o].written :
                       /\ tx'[o].written[r] \in Contents(r)
                       /\ \A p \in Workers \ {o} : r \notin DOMAIN tx'[p].written
      <3>1. \A p \in Workers :
               /\ DOMAIN tx[p].written \subseteq Rows
               /\ \A r \in DOMAIN tx[p].written :
                     /\ tx[p].written[r] \in Contents(r)
                     /\ \A q \in Workers \ {p} : r \notin DOMAIN tx[q].written
        BY DEF CatalogueInv, TypeOK, Locked
      <3>2. CASE o = w
        <4>1. ASSUME NEW r \in DOMAIN written
              PROVE  r \in Rows /\ written[r] \in Contents(r)
          BY <1>7, <1>9, <1>10, <3>1
        <4>2. ASSUME NEW r \in DOMAIN written, NEW p \in Workers \ {w}
              PROVE  r \notin DOMAIN tx[p].written
          BY <1>10, <2>3, <3>1
        <4> QED
          BY <1>11, <2>2, <3>2, <4>1, <4>2
      <3>3. CASE o # w
        <4>1. tx'[o].written = tx[o].written
          BY <2>2, <3>3
        <4>2. ASSUME NEW r \in DOMAIN tx[o].written, NEW p \in Workers \ {o}
              PROVE  r \notin DOMAIN tx'[p].written
          <5>1. CASE p = w
            BY <1>10, <1>11, <2>3, <3>1, <3>3, <5>1
          <5>2. CASE p # w
            BY <2>2, <3>1, <5>2
          <5> QED
            BY <5>1, <5>2
        <4> QED
          BY <3>1, <4>1, <4>2
      <3> QED
        BY <3>2, <3>3
    <2> QED
      BY <1>1, <2>1, <2>4 DEF CatalogueInv, TypeOK, Locked
  <1> QED
    BY <1>4, <1>14, <1>15 DEF CatalogueInv

\* While one call commits, what another has executed could as well follow it.
LEMMA CommitOfOther ==
    ASSUME CatalogueInv, NEW w \in Workers, NEW o \in Workers \ {w}, tx'[o] = tx[o],
           rows' = [r \in Rows |-> Visible(w, r)],
           tx[o] # NoTx
    PROVE  OnCourse(o)' /\ NamesOK(o)'
  <1>1. \A r \in Rows : /\ rows'[r] = Visible(w, r)
                        /\ r \notin DOMAIN tx[w].written => rows'[r] = rows[r]
                        /\ r \in DOMAIN tx[w].written => rows'[r] = tx[w].written[r]
    BY DEF Visible
  <1>2. /\ DOMAIN tx[w].written \subseteq Rows
        /\ \A r \in DOMAIN tx[w].written :
              /\ tx[w].written[r] \in Contents(r)
              /\ r \notin DOMAIN tx[o].written
    BY DEF CatalogueInv, TypeOK, Locked
  <1>3. \A r \in Rows : rows[r] # None => rows'[r] # None
    BY <1>1, <1>2, ValuesAssumption
  <1>4. PICK C, n, h :
            /\ C \in Commands /\ n \in Nat
            /\ FromMessage(o, C) /\ Position(o, C, n) /\ Replay(o, C, n, h)
    BY DEF CatalogueInv, OnCourse
  <1>5. C \in Seq(StatementSet) /\ n \in 0 .. Len(C) /\ \A i \in 1 .. n : C[i].row \in Rows
    <2>1. C \in Seq(StatementSet) /\ n \in 0 .. Len(C)
      BY <1>4, CommandsTyped DEF Position
    <2>2. \A i \in 1 .. n : C[i] \in StatementSet
      BY <2>1
    <2> QED
      BY <2>1, <2>2 DEF StatementSet
  <1>6. FromMessage(o, C)'
    BY <1>4 DEF FromMessage
  <1>7. Position(o, C, n)'
    BY <1>3, <1>4, <1>5 DEF Position, Executed
  <1>8. \E g : Replay(o, C, n, g)'
    <2>1. \E g : g = [i \in 0 .. n |-> [r \in Rows |-> IF r \in DOMAIN tx[w].written
                                                       THEN tx[w].written[r] ELSE h[i][r]]]
      OBVIOUS
    <2>2. PICK g : g = [i \in 0 .. n |-> [r \in Rows |-> IF r \in DOMAIN tx[w].written
                                                         THEN tx[w].written[r] ELSE h[i][r]]]
      BY <2>1
    <2>3. \A i \in 0 .. n : /\ g[i] = [r \in Rows |-> g[i][r]]
                            /\ \A r \in Rows :
                                  /\ r \in DOMAIN tx[w].written => g[i][r] = rows'[r]
                                  /\ r \notin DOMAIN tx[w].written => g[i][r] = h[i][r]
      BY <1>1, <2>2
    <2>4. g[0] = rows'
      <3>1. h[0] = rows /\ 0 \in 0 .. n
        BY <1>4 DEF Replay
      <3>2. \A r \in Rows : g[0][r] = rows'[r]
        BY <1>1, <2>3, <3>1
      <3> QED
        BY <2>3, <3>1, <3>2
    <2>5. ASSUME NEW i \in 1 .. n PROVE g[i] = Effect(g[i - 1], C[i])
      <3>1. i \in 0 .. n /\ i - 1 \in 0 .. n
        BY <1>4
      <3>2. h[i] = Effect(h[i - 1], C[i])
        BY <1>4 DEF Replay
      <3>3. Executed(o, C[i])
        BY <1>4 DEF Position
      <3>4. ASSUME NEW r \in Rows
            PROVE  g[i][r] = IF r = C[i].row THEN AfterStatement(g[i - 1][r], C[i])
                                             ELSE g[i - 1][r]
        <4>1. CASE r \notin DOMAIN tx[w].written
          <5>1. g[i][r] = h[i][r] /\ g[i - 1][r] = h[i - 1][r]
            BY <2>3, <3>1, <4>1
          <5> QED
            BY <3>2, <5>1 DEF Effect
        <4>2. CASE r \in DOMAIN tx[w].written /\ r = C[i].row
          <5>1. C[i].ensure /\ rows'[r] # None
            BY <1>2, <1>3, <3>3, <4>2 DEF Executed
          <5>2. g[i][r] = rows'[r] /\ g[i - 1][r] = rows'[r]
            BY <2>3, <3>1, <4>2
          <5> QED
            BY <4>2, <5>1, <5>2 DEF AfterStatement
        <4>3. CASE r \in DOMAIN tx[w].written /\ r # C[i].row
          <5>1. g[i][r] = rows'[r] /\ g[i - 1][r] = rows'[r]
            BY <2>3, <3>1, <4>3
          <5> QED
            BY <4>3, <5>1
        <4> QED
          BY <4>1, <4>2, <4>3
      <3>5. g[i] = [r \in Rows |-> g[i][r]]
        BY <2>3, <3>1
      <3> QED
        BY <3>4, <3>5 DEF Effect
    <2>6. ASSUME NEW r \in Rows PROVE g[n][r] = Visible(o, r)'
      <3>1. n \in 0 .. n /\ h[n][r] = Visible(o, r)
        BY <1>4 DEF Replay
      <3>2. CASE r \in DOMAIN tx[w].written
        BY <1>2, <2>3, <3>1, <3>2 DEF Visible
      <3>3. CASE r \notin DOMAIN tx[w].written
        BY <1>1, <2>3, <3>1, <3>3 DEF Visible
      <3> QED
        BY <3>2, <3>3
    <2>7. Replay(o, C, n, g)'
      BY <2>4, <2>5, <2>6 DEF Replay
    <2> QED
      BY <2>7
  <1>9. NamesOK(o)'
    <2>1. ASSUME NEW sku \in Skus, ProductRow(sku) \in DOMAIN tx[o].written,
                 rows[ProductRow(sku)] = None
          PROVE  rows'[ProductRow(sku)] = None
      BY <1>1, <1>2, <2>1 DEF Rows
    <2> QED
      BY <2>1 DEF CatalogueInv, NamesOK
  <1> QED
    BY <1>4, <1>6, <1>7, <1>8, <1>9 DEF OnCourse

LEMMA CommitKeeps ==
    ASSUME CatalogueInv, NEW w \in Workers, Commit(w)
    PROVE  CatalogueInv'
  <1>1. /\ tx[w] # NoTx /\ messages' = messages
        /\ rows' = [r \in Rows |-> Visible(w, r)]
        /\ tx' = [tx EXCEPT ![w] = NoTx]
    BY DEF Commit
  <1>2. tx' = [v \in Workers |-> IF v = w THEN NoTx ELSE tx[v]]
    BY <1>1, OneCall DEF CatalogueInv
  <1>3. Shape'
    <2>1. \A v \in Workers : tx'[v] = [kind |-> tx'[v].kind, todo |-> tx'[v].todo,
                                       written |-> tx'[v].written]
      BY <1>2 DEF CatalogueInv, Shape, NoTx
    <2>2. tx' = [v \in Workers |-> tx'[v]]
      BY <1>2
    <2>3. rows' = [r \in Rows |-> rows'[r]]
      BY <1>1
    <2> QED
      BY <2>1, <2>2, <2>3 DEF Shape
  <1>4. \A o \in Workers : (tx[o] # NoTx => OnCourse(o) /\ NamesOK(o))'
    <2>1. ASSUME NEW o \in Workers \ {w}, (tx[o] # NoTx)' PROVE (OnCourse(o) /\ NamesOK(o))'
      <3>1. tx'[o] = tx[o] /\ tx[o] # NoTx
        BY <1>2, <2>1
      <3> QED
        BY <1>1, <3>1, CommitOfOther
    <2> QED
      BY <1>2, <2>1
  <1>5. TypeOK'
    <2>1. \A r \in Rows : rows'[r] = None \/ rows'[r] \in Contents(r)
      BY <1>1, VisibleTyped DEF CatalogueInv
    <2>2. \A o \in Workers : \/ tx'[o].written = <<>> /\ tx'[o].kind = None
                             \/ tx'[o].written = tx[o].written /\ tx'[o].kind = tx[o].kind
      BY <1>2 DEF NoTx
    <2>3. DOMAIN <<>> = {}
      OBVIOUS
    <2>4. DOMAIN rows' = Rows
      BY <1>1
    <2> QED
      BY <1>1, <2>1, <2>2, <2>3, <2>4 DEF CatalogueInv, TypeOK, Locked
  <1> QED
    BY <1>3, <1>4, <1>5 DEF CatalogueInv

LEMMA RollbackKeeps ==
    ASSUME CatalogueInv, NEW w \in Workers, Rollback(w)
    PROVE  CatalogueInv'
  <1>1. messages' = messages /\ rows' = rows /\ tx' = [tx EXCEPT ![w] = NoTx]
    BY DEF Rollback
  <1>2. Shape' /\ tx'[w] = NoTx /\ \A o \in Workers \ {w} : tx'[o] = tx[o]
    <2>1. NoTx = [kind |-> NoTx.kind, todo |-> NoTx.todo, written |-> NoTx.written]
      BY DEF NoTx
    <2> QED
      BY <1>1, <2>1, ShapeKept DEF CatalogueInv
  <1>3. \A o \in Workers : (tx[o] # NoTx => OnCourse(o) /\ NamesOK(o))'
    <2>1. ASSUME NEW o \in Workers \ {w} PROVE (tx[o] # NoTx => OnCourse(o) /\ NamesOK(o))'
      BY <1>1, <1>2, Bystander DEF CatalogueInv
    <2> QED
      BY <1>2, <2>1
  <1>4. TypeOK'
    <2>1. \A o \in Workers : \/ tx'[o].written = <<>> /\ tx'[o].kind = None
                             \/ tx'[o].written = tx[o].written /\ tx'[o].kind = tx[o].kind
      BY <1>2 DEF NoTx
    <2>2. DOMAIN <<>> = {}
      OBVIOUS
    <2> QED
      BY <1>1, <2>1, <2>2 DEF CatalogueInv, TypeOK, Locked
  <1> QED
    BY <1>2, <1>3, <1>4 DEF CatalogueInv

-----------------------------------------------------------------------------
(* The theorems *)

(***************************************************************************)
(* The inductive invariant of the catalogue holds in every reachable state *)
(* for any messages and any number of ingest calls.                        *)
(***************************************************************************)
THEOREM CatalogueInductive == Spec => []CatalogueInv
  <1>1. Init => CatalogueInv
    <2> SUFFICES ASSUME Init PROVE CatalogueInv
      OBVIOUS
    <2>1. \A w \in Workers : tx[w] = NoTx
      BY DEF Init
    <2>2. DOMAIN <<>> = {}
      OBVIOUS
    <2>3. TypeOK
      BY <2>1, <2>2, MessagesAssumption DEF Init, TypeOK, NoTx, Locked
    <2>4. Shape
      BY DEF Init, Shape, NoTx
    <2> QED
      BY <2>1, <2>3, <2>4 DEF CatalogueInv
  <1>2. CatalogueInv /\ [Next]_vars => CatalogueInv'
    <2> SUFFICES ASSUME CatalogueInv, [Next]_vars PROVE CatalogueInv'
      OBVIOUS
    <2>1. ASSUME NEW w \in Workers, NEW d \in ProductDtos, IngestProduct(w, d)
          PROVE  CatalogueInv'
      <3>1. Begin(w, "product", ApplyCatalogue(d))
        BY <2>1 DEF IngestProduct
      <3>2. PICK C : C = ApplyCatalogue(d)
        OBVIOUS
      <3>3. C \in Commands /\ C \in {ApplyCatalogue(e) : e \in ProductDtos}
        BY <3>2 DEF Commands
      <3> QED
        BY <3>1, <3>2, <3>3, BeginKeeps
    <2>2. ASSUME NEW w \in Workers, NEW d \in StockDtos, IngestStock(w, d)
          PROVE  CatalogueInv'
      <3>1. Begin(w, "stock", ApplyStock(d))
        BY <2>2 DEF IngestStock
      <3>2. PICK C : C = ApplyStock(d)
        OBVIOUS
      <3>3. C \in Commands /\ C \in {ApplyStock(e) : e \in StockDtos}
        BY <3>2 DEF Commands
      <3> QED
        BY <3>1, <3>2, <3>3, BeginKeeps
    <2>3. CASE UNCHANGED vars
      <3>1. rows' = rows /\ tx' = tx /\ messages' = messages
        BY <2>3 DEF vars
      <3>2. TypeOK' /\ Shape'
        BY <3>1 DEF CatalogueInv, TypeOK, Shape, Locked
      <3>3. \A o \in Workers : (tx[o] # NoTx => OnCourse(o) /\ NamesOK(o))'
        BY <3>1, Bystander DEF CatalogueInv
      <3> QED
        BY <3>2, <3>3 DEF CatalogueInv
    <2> QED
      BY <2>1, <2>2, <2>3, FindRowKeeps, WriteRowKeeps, CommitKeeps, RollbackKeeps DEF Next
  <1> QED
    BY <1>1, <1>2, PTL DEF Spec

(***************************************************************************)
(* The rows have the columns of their tables, without undefined or null,   *)
(* and no two calls have written the same row.                             *)
(***************************************************************************)
THEOREM CatalogueTypeCorrect == Spec => []TypeOK
  <1>1. CatalogueInv => TypeOK
    BY DEF CatalogueInv
  <1> QED
    BY <1>1, CatalogueInductive, PTL

(***************************************************************************)
(* Only a product message's commit changes the name of a product that is   *)
(* there, to the name it carries.                                          *)
(***************************************************************************)
THEOREM NameStays == Spec => NeverAPlaceholderAgain
  <1> DEFINE Kept(s) ==
        LET r == ProductRow(s) IN
        rows[r] # None =>
            /\ rows'[r] # None
            /\ \/ rows'[r].name = rows[r].name
               \/ /\ \E w \in Workers : tx[w].kind = "product" /\ tx'[w] = NoTx
                  /\ \E d \in ProductDtos : d.sku = s /\ d.name = rows'[r].name
  <1>1. CatalogueInv /\ [Next]_vars => [\A s \in Skus : Kept(s)]_vars
    <2> SUFFICES ASSUME CatalogueInv, Next, NEW s \in Skus PROVE Kept(s)
      OBVIOUS
    <2>1. CASE rows' = rows
      BY <2>1
    <2>2. ASSUME NEW w \in Workers, Commit(w) PROVE Kept(s)
      <3>1. PICK r : r = ProductRow(s)
        OBVIOUS
      <3>2. r \in Rows
        BY <3>1 DEF Rows
      <3>3. rows'[r] = Visible(w, r) /\ tx[w] # NoTx /\ tx'[w] = NoTx
        <4>1. DOMAIN tx = Workers
          BY DEF CatalogueInv, Shape
        <4> QED
          BY <2>2, <3>2, <4>1 DEF Commit
      <3>4. CASE r \notin DOMAIN tx[w].written
        BY <3>1, <3>3, <3>4 DEF Visible
      <3>5. CASE r \in DOMAIN tx[w].written
        <4>1. rows'[r] = tx[w].written[r] /\ rows'[r] # None
          BY <3>2, <3>3, <3>5, ValuesAssumption DEF Visible, CatalogueInv, TypeOK
        <4>2. NamesOK(w)
          BY <3>3 DEF CatalogueInv
        <4>3. \/ /\ tx[w].kind = "product"
                 /\ \E d \in ProductDtos : d.sku = s /\ d.name = tx[w].written[r].name
              \/ tx[w].kind = "stock" /\ rows[r] = None
          BY <3>1, <3>5, <4>2 DEF NamesOK
        <4> QED
          BY <3>1, <3>3, <4>1, <4>3
      <3> QED
        BY <3>4, <3>5
    <2>3. rows' = rows \/ \E w \in Workers : Commit(w)
      BY DEF Next, IngestProduct, IngestStock, Begin, FindRow, WriteRow, Rollback
    <2> QED
      BY <2>1, <2>2, <2>3
  <1>2. NeverAPlaceholderAgain <=> [][\A s \in Skus : Kept(s)]_vars
    BY DEF NeverAPlaceholderAgain
  <1> QED
    BY <1>1, <1>2, CatalogueInductive, PTL DEF Spec

\* A product message locks its season, then its product, then its variants.
LEMMA ProductOrder ==
    ASSUME CatalogueInv, NEW w \in Workers, Sending(w), tx[w].kind # "stock"
    PROVE  /\ Statement(w).row \in Rows
           /\ \A s, c : Statement(w).row = VariantRow(s, c) =>
                  ProductRow(s) \in DOMAIN tx[w].written
           /\ \A s, c : VariantRow(s, c) \in DOMAIN tx[w].written =>
                  ProductRow(s) \in DOMAIN tx[w].written
           /\ \A s : ProductRow(s) \in DOMAIN tx[w].written =>
                  \E t, c : Statement(w).row = VariantRow(t, c)
           /\ \A m : SeasonRow(m) \in DOMAIN tx[w].written =>
                  \A n : Statement(w).row # SeasonRow(n)
  <1>1. tx[w] # NoTx
    BY DEF Sending, NoTx
  <1>2. PICK C \in Commands, n \in Nat : FromMessage(w, C) /\ Position(w, C, n)
    BY <1>1 DEF CatalogueInv, OnCourse
  <1>3. /\ C \in Seq(StatementSet) /\ n \in 0 .. Len(C) /\ n < Len(C)
        /\ Statement(w) = C[n + 1] /\ C[n + 1].row \in Rows
    BY <1>2, CurrentStatement
  <1>4. PICK d \in ProductDtos : C = ApplyCatalogue(d)
    BY <1>2 DEF FromMessage
  <1>5. PICK k \in {0, 1} :
          /\ Len(C) >= k + 1
          /\ C[k + 1] = UpsertProduct(d)
          /\ \A i \in 1 .. Len(C) :
                /\ ~C[i].ensure
                /\ i < k + 1 => \E m \in Seasons : C[i].row = SeasonRow(m)
                /\ i > k + 1 => \E c \in Codes : C[i].row = VariantRow(d.sku, c)
    BY <1>4, ProductCommand
  <1>6. C[k + 1].row = ProductRow(d.sku)
    BY <1>5, ProductTyped
  <1>7. \A i \in 1 .. Len(C) :
           /\ \A m : C[i].row = SeasonRow(m) => i < k + 1
           /\ \A s : C[i].row = ProductRow(s) => i = k + 1 /\ s = d.sku
           /\ \A s, c : C[i].row = VariantRow(s, c) => i > k + 1 /\ s = d.sku
    <2> SUFFICES ASSUME NEW i \in 1 .. Len(C)
                 PROVE  /\ \A m : C[i].row = SeasonRow(m) => i < k + 1
                        /\ \A s : C[i].row = ProductRow(s) => i = k + 1 /\ s = d.sku
                        /\ \A s, c : C[i].row = VariantRow(s, c) => i > k + 1 /\ s = d.sku
      OBVIOUS
    <2>1. CASE i < k + 1
      <3>1. PICK m \in Seasons : C[i].row = SeasonRow(m)
        BY <1>5, <2>1
      <3> QED
        BY <2>1, <3>1, RowsApart
    <2>2. CASE i = k + 1
      BY <1>6, <2>2, RowsApart
    <2>3. CASE i > k + 1
      <3>1. PICK c \in Codes : C[i].row = VariantRow(d.sku, c)
        BY <1>5, <2>3
      <3> QED
        BY <2>3, <3>1, RowsApart
    <2> QED
      BY <2>1, <2>2, <2>3
  <1>8. \A i \in 1 .. n : C[i].row \in DOMAIN tx[w].written
    BY <1>2, <1>3, <1>5 DEF Position, Executed
  <1>9. \A r \in DOMAIN tx[w].written : \E i \in 1 .. n : C[i].row = r
    BY <1>2 DEF Position
  <1>10. n + 1 \in 1 .. Len(C) /\ \A i \in 1 .. n : i \in 1 .. Len(C) /\ i < n + 1
    BY <1>3
  <1>11. ASSUME n + 1 > k + 1 PROVE ProductRow(d.sku) \in DOMAIN tx[w].written
    <2>1. k + 1 \in 1 .. n
      BY <1>3, <1>11
    <2> QED
      BY <1>6, <1>8, <2>1
  <1>12. ASSUME NEW s, NEW c, Statement(w).row = VariantRow(s, c)
         PROVE  ProductRow(s) \in DOMAIN tx[w].written
    BY <1>3, <1>7, <1>10, <1>11, <1>12
  <1>13. ASSUME NEW s, NEW c, VariantRow(s, c) \in DOMAIN tx[w].written
         PROVE  ProductRow(s) \in DOMAIN tx[w].written
    <2>1. PICK i \in 1 .. n : C[i].row = VariantRow(s, c)
      BY <1>9, <1>13
    <2>2. i > k + 1 /\ s = d.sku
      BY <1>7, <1>10, <2>1
    <2>3. n + 1 > k + 1
      BY <1>3, <2>2
    <2> QED
      BY <1>11, <2>2, <2>3
  <1>14. ASSUME NEW s, ProductRow(s) \in DOMAIN tx[w].written
         PROVE  \E t, c : Statement(w).row = VariantRow(t, c)
    <2>1. PICK i \in 1 .. n : C[i].row = ProductRow(s)
      BY <1>9, <1>14
    <2>2. i = k + 1
      BY <1>7, <1>10, <2>1
    <2>3. n + 1 > k + 1
      BY <1>3, <2>2
    <2> QED
      BY <1>3, <1>5, <1>10, <2>3
  <1>15. ASSUME NEW m, SeasonRow(m) \in DOMAIN tx[w].written,
                NEW p, Statement(w).row = SeasonRow(p)
         PROVE  FALSE
    <2>1. PICK i \in 1 .. n : C[i].row = SeasonRow(m)
      BY <1>9, <1>15
    <2>2. i < k + 1 /\ n + 1 < k + 1
      BY <1>3, <1>7, <1>10, <1>15, <2>1
    <2> QED
      BY <1>3, <1>5, <2>2
  <1> QED
    BY <1>3, <1>12, <1>13, <1>14, <1>15

(***************************************************************************)
(* A deadlock takes a stock message: product messages, however many and    *)
(* whatever they are about, never wait for one another in a circle.        *)
(***************************************************************************)
THEOREM ProductsFree == Spec => []ProductsNeverDeadlock
  <1>1. CatalogueInv => ProductsNeverDeadlock
    <2> SUFFICES ASSUME CatalogueInv, NEW calls \in SUBSET Workers, Deadlock(calls),
                        \A w \in calls : tx[w].kind # "stock"
                 PROVE  FALSE
      BY DEF ProductsNeverDeadlock
    <2>1. \A w \in calls : w \in Workers /\ Sending(w) /\ \E o \in calls : WaitsFor(w, o)
      BY DEF Deadlock, WaitsFor
    <2>2. \A w, o \in Workers : w # o => DOMAIN tx[w].written \cap DOMAIN tx[o].written = {}
      BY DEF CatalogueInv, TypeOK, Locked
    <2>3. ASSUME NEW w \in calls, NEW s, NEW c, Statement(w).row = VariantRow(s, c)
          PROVE  FALSE
      <3>1. PICK o \in calls : WaitsFor(w, o)
        BY <2>1
      <3>2. w # o /\ VariantRow(s, c) \in DOMAIN tx[o].written
        BY <2>3, <3>1 DEF WaitsFor
      <3>3. ProductRow(s) \in DOMAIN tx[w].written
        BY <2>1, <2>3, ProductOrder
      <3>4. ProductRow(s) \in DOMAIN tx[o].written
        BY <2>1, <3>2, ProductOrder
      <3> QED
        BY <2>1, <2>2, <3>2, <3>3, <3>4
    <2>4. ASSUME NEW w \in calls, NEW s, Statement(w).row = ProductRow(s)
          PROVE  FALSE
      <3>1. PICK o \in calls : WaitsFor(w, o)
        BY <2>1
      <3>2. ProductRow(s) \in DOMAIN tx[o].written
        BY <2>4, <3>1 DEF WaitsFor
      <3>3. \E t, c : Statement(o).row = VariantRow(t, c)
        BY <2>1, <3>2, ProductOrder
      <3> QED
        BY <2>3, <3>3
    <2>5. ASSUME NEW w \in calls PROVE \E m : Statement(w).row = SeasonRow(m)
      <3>1. Statement(w).row \in Rows
        BY <2>1, ProductOrder
      <3> QED
        BY <2>3, <2>4, <3>1 DEF Rows
    <2>6. PICK w \in calls : TRUE
      BY DEF Deadlock
    <2>7. PICK o \in calls : WaitsFor(w, o)
      BY <2>1
    <2>8. PICK m, n : Statement(w).row = SeasonRow(m) /\ Statement(o).row = SeasonRow(n)
      BY <2>5
    <2>9. SeasonRow(m) \in DOMAIN tx[o].written
      BY <2>7, <2>8 DEF WaitsFor
    <2> QED
      BY <2>1, <2>8, <2>9, ProductOrder
  <1> QED
    BY <1>1, CatalogueInductive, PTL

-----------------------------------------------------------------------------
(* The refinement *)

LEMMA LeastOfNaturals ==
    ASSUME NEW S, S \subseteq Nat, S # {}
    PROVE  \E i \in S : \A j \in S : i <= j
  <1> DEFINE Less == OpToRel(<, Nat)
  <1>1. IsWellFoundedOn(Less, Nat)
    BY NatLessThanWellFounded
  <1>2. \A i, j \in Nat : j < i => <<j, i>> \in Less
    BY DEF OpToRel
  <1> HIDE DEF Less
  <1>3. PICK i \in S : \A j \in S : <<j, i>> \notin Less
    BY <1>1, WFMin
  <1>4. ASSUME NEW j \in S PROVE i <= j
    <2>1. i \in Nat /\ j \in Nat /\ <<j, i>> \notin Less
      BY <1>3
    <2>2. ~(j < i)
      BY <1>2, <2>1
    <2> QED
      BY <2>1, <2>2
  <1> QED
    BY <1>4

\* What the ledger makes of a command, statement by statement.
LEMMA CommandEffect ==
    ASSUME NEW contents, NEW C \in Seq(StatementSet), NEW h, h[0] = contents,
           \A i \in 1 .. Len(C) : h[i] = Ledger!After(h[i - 1], C[i])
    PROVE  Ledger!AfterCommand(contents, C) = h[Len(C)]
  <1> DEFINE N == Len(C)
             F(f) == [n \in 0 .. N |-> IF n = 0 THEN contents ELSE Ledger!After(f[n - 1], C[n])]
             after == CHOOSE f : f = F(f)
             g == [n \in 0 .. N |-> h[n]]
  <1>1. N \in Nat
    OBVIOUS
  <1>2. Ledger!AfterCommand(contents, C) = after[N]
    BY DEF Ledger!AfterCommand
  <1> HIDE DEF N
  <1>3. g = F(g)
    <2>1. ASSUME NEW n \in 0 .. N
          PROVE  h[n] = IF n = 0 THEN contents ELSE Ledger!After(g[n - 1], C[n])
      <3>1. CASE n = 0
        BY <3>1
      <3>2. CASE n # 0
        <4>1. n \in 1 .. N /\ n - 1 \in 0 .. N
          BY <1>1, <3>2
        <4>2. g[n - 1] = h[n - 1]
          BY <4>1
        <4> QED
          BY <3>2, <4>1, <4>2 DEF N
      <3> QED
        BY <3>1, <3>2
    <2> QED
      BY <2>1
  <1>4. after = F(after)
    <2> HIDE DEF g, F
    <2> QED
      BY <1>3
  <1>5. \A n \in 0 .. N : after[n] = IF n = 0 THEN contents ELSE Ledger!After(after[n - 1], C[n])
    <2> HIDE DEF after
    <2> QED
      BY <1>4
  <1> HIDE DEF after, F, g
  <1>6. \A n \in 0 .. N : after[n] = h[n]
    <2> DEFINE Wrong == {n \in 0 .. N : after[n] # h[n]}
    <2> SUFFICES ASSUME Wrong # {} PROVE FALSE
      OBVIOUS
    <2>1. PICK n \in Wrong : \A j \in Wrong : n <= j
      <3>1. Wrong \subseteq Nat
        BY <1>1
      <3> HIDE DEF Wrong
      <3> QED
        BY <3>1, LeastOfNaturals
    <2>2. n # 0
      BY <1>1, <1>5, <2>1
    <2>3. n \in 1 .. N /\ n - 1 \in 0 .. N /\ n - 1 < n
      BY <1>1, <2>1, <2>2
    <2>4. after[n - 1] = h[n - 1]
      BY <2>1, <2>3
    <2>5. after[n] = h[n]
      BY <1>5, <2>2, <2>3, <2>4 DEF N
    <2> QED
      BY <2>1, <2>5
  <1> QED
    BY <1>1, <1>2, <1>6 DEF N

(***************************************************************************)
(* The transactions implement the ledger: a commit applies the whole       *)
(* message at one instant, nothing else changes a row.                     *)
(***************************************************************************)
THEOREM ImplementsLedger == Spec => CatalogueAsInLedger
  <1>1. Init => Ledger!Init
    BY DEF Init, Ledger!Init
  <1>2. CatalogueInv /\ [Next]_vars => [Ledger!Next]_rows
    <2> SUFFICES ASSUME CatalogueInv, Next, rows' # rows PROVE Ledger!Next
      BY DEF vars
    <2>1. PICK w \in Workers : Commit(w)
      BY DEF Next, IngestProduct, IngestStock, Begin, FindRow, WriteRow, Rollback
    <2>2. tx[w] # NoTx /\ ~Sending(w) /\ rows' = [r \in Rows |-> Visible(w, r)]
      BY <2>1 DEF Commit
    <2>3. PICK C, n, h :
              /\ C \in Commands /\ n \in Nat
              /\ FromMessage(w, C) /\ Position(w, C, n) /\ Replay(w, C, n, h)
      BY <2>2 DEF CatalogueInv, OnCourse
    <2>4. C \in Seq(StatementSet) /\ n = Len(C)
      BY <2>2, <2>3, CurrentStatement
    <2>5. \A i \in DOMAIN C : ~Ledger!Throws(C[i])
      BY <2>3, <2>4, SameStatements DEF Position, Executed
    <2>6. \A i \in 0 .. n : h[i] = [r \in Rows |-> h[i][r]]
      <3> SUFFICES ASSUME NEW i \in 0 .. n PROVE h[i] = [r \in Rows |-> h[i][r]]
        OBVIOUS
      <3>1. CASE i = 0
        BY <2>3, <3>1 DEF Replay, CatalogueInv, Shape
      <3>2. CASE i # 0
        <4>1. h[i] = Effect(h[i - 1], C[i])
          BY <2>3, <3>2 DEF Replay
        <4> QED
          BY <4>1 DEF Effect
      <3> QED
        BY <3>1, <3>2
    <2>7. ASSUME NEW i \in 1 .. Len(C) PROVE h[i] = Ledger!After(h[i - 1], C[i])
      <3>1. i - 1 \in 0 .. n
        BY <2>4
      <3>2. h[i - 1] = [r \in Rows |-> h[i - 1][r]]
        BY <2>6, <3>1
      <3>3. C[i].row \in Rows
        <4>1. C[i] \in StatementSet
          BY <2>4
        <4> QED
          BY <4>1 DEF StatementSet
      <3>4. h[i] = Effect(h[i - 1], C[i])
        BY <2>3, <2>4 DEF Replay
      <3> QED
        BY <3>2, <3>3, <3>4, SameStatements DEF Effect, Ledger!After
    <2>8. rows' = h[Len(C)]
      <3>1. n \in 0 .. n /\ \A r \in Rows : h[n][r] = Visible(w, r)
        BY <2>3 DEF Replay
      <3> QED
        BY <2>2, <2>4, <2>6, <3>1
    <2>9. rows' = Ledger!AfterCommand(rows, C)
      <3>1. h[0] = rows
        BY <2>3 DEF Replay
      <3> QED
        BY <2>4, <2>7, <2>8, <3>1, CommandEffect
    <2> QED
      BY <2>3, <2>5, <2>9 DEF Ledger!Next
  <1> QED
    BY <1>1, <1>2, CatalogueInductive, PTL DEF Spec, CatalogueAsInLedger, Ledger!Spec

=============================================================================
