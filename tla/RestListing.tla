---------------------------- MODULE RestListing -----------------------------
(***************************************************************************)
(* What a GET answers. First the rows: pages, limits, markers, in either   *)
(* direction, while rows come and go. Then the fields of each row.         *)
(***************************************************************************)
EXTENDS Integers, Sequences, FiniteSets, SequencesExt, Naturals

(***************************************************************************)
(* Listing a collection page by page. A client follows the "next" links of *)
(* the answers while rows come and go. The plugin knows nothing of pages:  *)
(* the API sorts what it returns and cuts the page out (the Emulated       *)
(* helpers); what the database would cut out itself is stated next to it.  *)
(* A row is its id; the database yields rows by id, and column c of row r  *)
(* holds Column[c][r].                                                     *)
(***************************************************************************)
CONSTANTS
  RowId,     \* the ids, which are integers here
  Column,    \* the columns of a row, but for the id
  Sortable,  \* the attributes one may ask to sort by
  MaxLimits, \* values of pagination_max_limit, not positive for infinite
  MaxAsked   \* the largest limit a client asks for

ASSUME ListingAssumption ==
  /\ RowId \subseteq Nat /\ IsFiniteSet(RowId)
  /\ MaxLimits \subseteq Int /\ MaxLimits # {} /\ MaxAsked \in Nat
  /\ \A c \in DOMAIN Column : Column[c] \in [RowId -> Nat]

VARIABLES
  table,   \* the rows there are
  query,   \* what the client asks for, and pagination_max_limit
  listPc,  \* "idle", "walking", "last" (there is no next link), 400 or 500
  seen,    \* the rows of its pages, one page after the other
  moved    \* the rows that came or went since it began

listVars == <<table, query, listPc, seen, moved>>

None == -1
Sorts ==
  LET both == Sortable \cap DOMAIN Column
  IN {<< >>, <<<<"absent", TRUE>>>>} \cup {<<by>> : by \in Sortable \X BOOLEAN}
       \cup {<<<<by[1], TRUE>>, <<by[2], FALSE>>>> : by \in both \X both}

(* The table, the walk and its pages keep their types.                     *)
ListTypeOK ==
  /\ table \subseteq RowId /\ moved \subseteq RowId
  /\ query \in [limit : {None} \cup 0 .. MaxAsked, sorts : Sorts, marker : {None} \cup RowId,
                wanted : SUBSET Nat, max : MaxLimits]
  /\ listPc \in {"idle", "walking", "last", "400", "500"}
  /\ listPc = "walking" => query.limit # None
  /\ seen \in Seq(RowId)

ListInit ==
  /\ table \in SUBSET RowId
  /\ query = [limit |-> 0, sorts |-> << >>, marker |-> None, wanted |-> {},
              max |-> CHOOSE m \in MaxLimits : TRUE]
  /\ listPc = "idle" /\ seen = << >> /\ moved = {}

-----------------------------------------------------------------------------
(* get_filters: only the rows with one of the values asked for, if any is  *)
(* left once the empty ones are dropped (0 stands for the empty value).    *)
FilterColumn == CHOOSE c \in DOMAIN Column : TRUE
Wanted(S) ==
  LET values == query.wanted \ {0}
  IN IF values = {} THEN S ELSE {r \in S : Column[FilterColumn][r] \in values}

(* SortingEmulatedHelper.sort: sorted() leaves rows alone that compare     *)
(* equal. Comparing by an attribute that is in the map of the resource but *)
(* not in its rows is an error, where there are two rows to compare.       *)
Hidden == \E i \in DOMAIN query.sorts : query.sorts[i][1] \notin DOMAIN Column
Before(sorts, x, y) ==
  \/ \E i \in DOMAIN sorts :
       LET c == Column[sorts[i][1]]
       IN /\ IF sorts[i][2] THEN c[x] < c[y] ELSE c[x] > c[y]
          /\ \A j \in 1 .. i - 1 : Column[sorts[j][1]][x] = Column[sorts[j][1]][y]
  \/ (\A i \in DOMAIN sorts : Column[sorts[i][1]][x] = Column[sorts[i][1]][y]) /\ x < y
RowOrder == IF Hidden THEN {} ELSE {p \in RowId \X RowId : Before(query.sorts, p[1], p[2])}
Turned(R) == {p \in RowId \X RowId : <<p[2], p[1]>> \in R}
Ordered(S, R) == [k \in 1 .. Cardinality(S) |->
                    CHOOSE r \in S : Cardinality({x \in S : <<x, r>> \in R}) = k - 1]
Listed == Ordered(Wanted(table), RowOrder)

(* get_limit_and_marker: no limit, or 0, is as much as is allowed.         *)
EffectiveLimit(asked) ==
  IF query.max > 0 /\ (asked = 0 \/ asked > query.max) THEN query.max ELSE asked

(* Python's items[from:to], whose bounds count from the end when negative. *)
Bound(k, n) == IF k > n THEN n ELSE IF k >= 0 THEN k ELSE IF n + k >= 0 THEN n + k ELSE 0
Slice(items, from, to) ==
  SubSeq(items, Bound(from, Len(items)) + 1, Bound(to, Len(items)))

(* PaginationEmulatedHelper.paginate: the place of the marker counts from  *)
(* 0; that of one that is not there is the last, that of none is -1.       *)
Place(items, marker) ==
  IF marker = None THEN -1
  ELSE IF marker \in ToSet(items)
    THEN (CHOOSE k \in DOMAIN items : items[k] = marker) - 1
    ELSE Len(items) - 1

(* Mutant: a page leaves out the row after its marker.                     *)
PageBehindMarker(items, limit, marker) ==
  LET i == Place(items, marker)
  IN IF limit = 0 THEN items ELSE Slice(items, i + 2, i + limit + 2)

Page(items, limit, marker) ==
  LET i == Place(items, marker)
  IN IF limit = 0 THEN items ELSE Slice(items, i + 1, i + limit + 1)

PageBack(items, limit, marker) ==
  LET i == Place(items, marker) IN Slice(items, i - limit, i)

(* paginate_query: what the database would return for a marker, with the   *)
(* id as the last thing to sort by; _get_collection turns the directions,  *)
(* and then the rows, when the page before it is asked for.                *)
FirstRows(limit, items) == SubSeq(items, 1, IF limit < Len(items) THEN limit ELSE Len(items))
NativePage(limit, marker) ==
  FirstRows(limit, Ordered({r \in Wanted(table) : <<marker, r>> \in RowOrder}, RowOrder))
NativePageBack(limit, marker) ==
  Reverse(FirstRows(limit, Ordered({r \in Wanted(table) : <<r, marker>> \in RowOrder},
                                 Turned(RowOrder))))

-----------------------------------------------------------------------------
(* The first request, _items, and each that follows a "next" link.         *)
Start ==
  /\ listPc = "idle"
  /\ \E asked \in {None} \cup 0 .. MaxAsked, sorts \in Sorts, w \in {{0}, {0, 1}},
        max \in MaxLimits :
       /\ query' = [limit |-> asked, sorts |-> sorts, marker |-> None, wanted |-> w,
                    max |-> max]
       /\ listPc' =
            IF asked = None \/ \E i \in DOMAIN sorts : sorts[i][1] \notin Sortable
              THEN "400" ELSE "walking"
  /\ UNCHANGED <<table, seen, moved>>

FollowFails ==
  /\ listPc = "walking" /\ Hidden /\ Cardinality(Wanted(table)) > 1
  /\ listPc' = "500"
  /\ UNCHANGED <<table, query, seen, moved>>

(* The client adds a page to those it has, and asks for the next one as    *)
(* the link in the answer says.                                            *)
Extended(rows, page) == rows \o page

Followed(page) == [query EXCEPT !.marker = Last(page)]

(* get_pagination_links: a page that is not full has no next one.          *)
Follow ==
  /\ listPc = "walking" /\ (Hidden => Cardinality(Wanted(table)) <= 1)
  /\ LET limit == EffectiveLimit(query.limit)
         page == Page(Listed, limit, query.marker)
     IN /\ seen' = Extended(seen, page)
        /\ IF limit = 0 \/ Len(page) < limit
             THEN listPc' = "last" /\ UNCHANGED query
             ELSE query' = Followed(page) /\ UNCHANGED listPc
  /\ UNCHANGED <<table, moved>>

AddRow ==
  /\ listPc = "walking"
  /\ \E r \in RowId \ (table \cup moved) :
       table' = table \cup {r} /\ moved' = moved \cup {r}
  /\ UNCHANGED <<query, listPc, seen>>

RemoveRow ==
  /\ listPc = "walking"
  /\ \E r \in table : table' = table \ {r} /\ moved' = moved \cup {r}
  /\ UNCHANGED <<query, listPc, seen>>

ListNext == Start \/ Follow \/ FollowFails \/ AddRow \/ RemoveRow

ListSpec == ListInit /\ [][ListNext]_listVars

-----------------------------------------------------------------------------
(* Whoever follows the links to the last sees each row that was there all  *)
(* the time, unless the row a page ended with was deleted before the next  *)
(* page was asked for: then the list ends there.                           *)
WalkComplete ==
  listPc = "last" /\ query.marker \notin moved =>
    Wanted(table) \ moved \subseteq ToSet(seen)

(* No row is seen twice, and those that stayed are seen in order.          *)
WalkOrdered ==
  /\ \A i, j \in DOMAIN seen : seen[i] = seen[j] => i = j
  /\ listPc = "walking" /\ ~Hidden =>
       \A i, j \in DOMAIN seen : i < j => Before(query.sorts, seen[i], seen[j])

(* After a marker that is there, the API cuts out the page the database    *)
(* would have; before it, that page or, when there are fewer rows before   *)
(* it than the limit, less of it and often nothing.                        *)
PagesAgree ==
  listPc = "walking" /\ ~Hidden =>
    \A m \in Wanted(table), limit \in 1 .. MaxAsked :
      /\ Page(Listed, limit, m) = NativePage(limit, m)
      /\ LET back == PageBack(Listed, limit, m)
             native == NativePageBack(limit, m)
         IN /\ \E k \in 1 .. Len(native) + 1 : back = SubSeq(native, k, Len(native))
            /\ Len(native) = limit => back = native

(* A walk has the rows up to its marker, in order: a row that was there    *)
(* all the time is among them or comes after the marker.                   *)
WalkSound ==
  /\ listPc = "idle" => seen = << >> /\ query.marker = None
  /\ listPc = "walking" =>
       /\ IF seen = << >> THEN query.marker = None
                         ELSE query.marker = Last(seen) /\ EffectiveLimit(query.limit) > 0
       /\ query.marker \in {None} \cup Wanted(table) \cup moved
       /\ query.marker # None => \A r \in Wanted(table) \ moved :
            r \in ToSet(seen) \/ <<query.marker, r>> \in RowOrder
  /\ \A i, j \in DOMAIN seen : i < j => <<seen[i], seen[j]>> \in RowOrder

(* What each step of a walk keeps.                                         *)
ListInv == ListTypeOK /\ WalkSound /\ WalkComplete /\ WalkOrdered /\ PagesAgree

-----------------------------------------------------------------------------
(***************************************************************************)
(* Which attributes of a row a GET request is answered with. A client may  *)
(* name the ones it wants; to these are added what a policy, the order and *)
(* the pages need, and that is taken out again at the end. Some getters of *)
(* the plugin return whole rows whatever they are asked for.               *)
(***************************************************************************)
CONSTANTS
  ViewKind, Attribute, PrimaryKey,
  ColumnsOf,  \* ColumnsOf[k]: what a row has
  KnownOf,    \* what the attribute map of the resource declares
  PolicyOf,   \* those of them that a policy would need
  Trims,      \* Trims[k]: whether the getter of the list returns only what it is asked for
  MaxSorts    \* how many attributes one may sort by

ASSUME ViewsAssumption ==
  \A k \in ViewKind : ColumnsOf[k] \subseteq Attribute /\ PolicyOf[k] \subseteq KnownOf[k]
                  /\ PrimaryKey \in ColumnsOf[k] /\ KnownOf[k] \subseteq Attribute

VARIABLES
  get,       \* the request: its kind, whether it is a list, what it asks for,
             \* by what it sorts, whether pages are cut, and how many rows there are
  viewPc,
  original,  \* the fields the plugin is asked for
  added,     \* those to take out again
  rowsGot,       \* the attributes of the rows the plugin returns
  shown      \* the attributes of the rows in the answer

viewVars == <<get, viewPc, original, added, rowsGot, shown>>

Gets == [kind : ViewKind, many : BOOLEAN, asked : SUBSET Attribute,
         sorts : {S \in SUBSET Attribute : Cardinality(S) <= MaxSorts},
         sorting : BOOLEAN, paging : BOOLEAN, rows : 0 .. 2]

(* A GET, its rows and what is shown of them keep their types.             *)
ViewTypeOK ==
  /\ get \in Gets
  /\ viewPc \in {"fields", "sorting", "paging", "asking", "arranging", "shown", "500"}
  /\ original \subseteq Attribute /\ added \subseteq Attribute
  /\ rowsGot \subseteq ColumnsOf[get.kind] /\ shown \subseteq rowsGot
  /\ shown # {} => viewPc = "shown"

ManyRows == get.many

(* The plugin has no native support for pages or for an order: the helpers *)
(* are the emulated ones, where the configuration allows them.             *)
NativeSupport == FALSE
Emulated(allowed) == allowed /\ ~NativeSupport

ViewInit ==
  /\ get \in Gets
  /\ get.sorts \subseteq KnownOf[get.kind]
  /\ ~get.many => get.sorts = {} /\ ~get.sorting /\ ~get.paging /\ get.rows = 1
  /\ ~get.sorting => get.sorts = {}
  /\ viewPc = "fields"
  /\ original = {} /\ added = {} /\ rowsGot = {} /\ shown = {}

(* _do_field_list: with none asked for, nothing is added later, either.    *)
DoFieldList ==
  /\ viewPc = "fields"
  /\ original' = IF get.asked = {} THEN {} ELSE get.asked \cup PolicyOf[get.kind]
  /\ added' = IF get.asked = {} THEN {} ELSE PolicyOf[get.kind] \ get.asked
  /\ viewPc' = IF ManyRows THEN "sorting" ELSE "asking"
  /\ UNCHANGED <<get, rowsGot, shown>>

SortFields ==
  /\ viewPc = "sorting" /\ viewPc' = "paging"
  /\ LET more == IF Emulated(get.sorting) /\ original # {} THEN get.sorts \ original ELSE {}
     IN original' = original \cup more /\ added' = added \cup more
  /\ UNCHANGED <<get, rowsGot, shown>>

(* Mutant: the key is taken out though it was asked for.                   *)
PageFieldsAlways ==
  /\ viewPc = "paging" /\ viewPc' = "asking"
  /\ LET more == IF Emulated(get.paging) /\ original # {} THEN {PrimaryKey} ELSE {}
     IN original' = original \cup more /\ added' = added \cup more
  /\ UNCHANGED <<get, rowsGot, shown>>

PageFields ==
  /\ viewPc = "paging" /\ viewPc' = "asking"
  /\ LET more == IF Emulated(get.paging) /\ original # {} THEN {PrimaryKey} \ original ELSE {}
     IN original' = original \cup more /\ added' = added \cup more
  /\ UNCHANGED <<get, rowsGot, shown>>

(* CommonDbMixin._fields, by way of the getters that hand the fields on.   *)
Trimmed(columns, fields) == IF fields = {} THEN columns ELSE columns \cap fields

AskPlugin ==
  /\ viewPc = "asking"
  /\ rowsGot' = IF ManyRows /\ Trims[get.kind] THEN Trimmed(ColumnsOf[get.kind], original)
                                         ELSE ColumnsOf[get.kind]
  /\ viewPc' = IF ManyRows THEN "arranging" ELSE "shown"
  /\ shown' = IF ManyRows THEN {} ELSE ColumnsOf[get.kind] \ added
  /\ UNCHANGED <<get, original, added>>

(* What sort, paginate and get_links read in the rows; comparing takes two.*)
Needed ==
  (IF Emulated(get.sorting) /\ get.rows > 1 THEN get.sorts ELSE {})
    \cup (IF Emulated(get.paging) /\ get.rows > 0 THEN {PrimaryKey} ELSE {})

(* The rows are put in order and a page cut out; those of the answer are   *)
(* copies without what was added. No attribute is left out for a policy.   *)
Arrange ==
  /\ viewPc = "arranging"
  /\ IF Needed \subseteq rowsGot
     THEN viewPc' = "shown" /\ shown' = rowsGot \ added
     ELSE viewPc' = "500" /\ UNCHANGED shown
  /\ UNCHANGED <<get, original, added, rowsGot>>

ViewNext == DoFieldList \/ SortFields \/ PageFields \/ AskPlugin \/ Arrange

-----------------------------------------------------------------------------
(* Whatever is added and taken out, an attribute the client asked for is   *)
(* in the answer, if the row has it; with none asked for, all of them are. *)
AskedShown ==
  viewPc = "shown" =>
    /\ get.asked \cap ColumnsOf[get.kind] \subseteq shown
    /\ get.asked = {} => shown = ColumnsOf[get.kind]

(* A list is answered with nothing else, where its getter trims: neither   *)
(* what the order needs nor what the pages do shows.                       *)
NothingElseShown ==
  viewPc = "shown" /\ ManyRows /\ Trims[get.kind] /\ get.asked # {} => shown \subseteq get.asked

(* Naming fields never makes a request fail that would be answered without *)
(* them: only sorting by an attribute the rows do not have does.           *)
FieldsHarmless ==
  viewPc = "500" => get.rows > 1 /\ ~ get.sorts \subseteq ColumnsOf[get.kind]

(* What is asked of the plugin is what the client asked for and what was   *)
(* added, and everything that is read later is in it.                      *)
FieldsApart ==
  /\ get.asked \cap added = {}
  /\ viewPc # "fields" => original = get.asked \cup added
  /\ get.asked = {} => added = {}
  /\ get.asked # {} /\ get.many /\ viewPc \notin {"fields", "sorting"} /\ get.sorting =>
       get.sorts \subseteq original
  /\ get.asked # {} /\ get.many /\ viewPc \notin {"fields", "sorting", "paging"} /\ get.paging =>
       PrimaryKey \in original
  /\ viewPc \in {"sorting", "paging", "arranging"} => get.many
  /\ viewPc \in {"arranging", "500"} =>
       rowsGot = IF Trims[get.kind] THEN Trimmed(ColumnsOf[get.kind], original)
                                    ELSE ColumnsOf[get.kind]

(* What each step of answering a GET keeps.                                *)
ViewInv ==
  ViewTypeOK /\ FieldsApart /\ AskedShown /\ NothingElseShown /\ FieldsHarmless
=============================================================================
