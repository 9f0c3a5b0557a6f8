------------------------------ MODULE AdminForm ------------------------------
(* The country and Quality form of the admin page: what view.ts posts,        *)
(* form-policy.ts rebuilds, geo-quality-policy.ts accepts, the control-plane  *)
(* store keeps, and a redirect makes of it (current-decision-provider.ts,     *)
(* redirect/policy.ts).  The codes and percentages a person may type are      *)
(* small sets: a blank, a good one, and one that must be refused.             *)
EXTENDS Integers, FiniteSets, SequencesExt

CONSTANTS
  None,       \* nothing: a blank entry, an absent field, a refusal
  Country,    \* the supported codes, "??" not among them
  Domain,     \* the numbers of the configured domains
  MaxRows     \* rows of one form (250)

Modes == {"off", "selected", "all"}
Parts == {"country", "percent", "quality"}

Row(country, percent, quality) == [country |-> country, percent |-> percent, quality |-> quality]

-----------------------------------------------------------------------------
(* The page: its fields in the order a browser posts them                     *)

Field(name, row, value) == [name |-> name, row |-> row, value |-> value]

(* An unchecked box posts nothing.                                            *)
RowFields(i, row) ==
  <<Field("country", i, row.country), Field("percent", i, row.percent)>>
    \o (IF row.quality THEN <<Field("quality", i, TRUE)>> ELSE <<>>)

Form(domain, mode, confirmed, rows) ==
  <<Field("domain", None, domain), Field("mode", None, mode)>>
    \o (IF confirmed THEN <<Field("confirmed", None, TRUE)>> ELSE <<>>)
    \o FlattenSeq([i \in DOMAIN rows |-> RowFields(i - 1, rows[i])])
    \o <<Field("complete", None, TRUE)>>

(* What is stored is shown by country, or as one row to fill in.              *)
ShownRows(state) ==
  LET order == SetToSeq(DOMAIN state.rules)
  IN IF order = <<>> THEN <<Row(None, 0, FALSE)>>
     ELSE [i \in DOMAIN order |-> Row(order[i], state.rules[order[i]], order[i] \in state.quality.countries)]

ShownMode(state) == IF state.quality.active THEN state.quality.scope ELSE "off"

-----------------------------------------------------------------------------
(* reconstructGeoQualityForm                                                  *)

Posted(form, name, row) ==
  LET fields == {f \in ToSet(form) : f.name = name /\ f.row = row}
  IN IF fields = {} THEN None ELSE (CHOOSE f \in fields : TRUE).value

(* A gap among the rows is taken for a form cut short.                        *)
Reconstruct(form) ==
  LET named == {f.row : f \in {g \in ToSet(form) : g.name \in Parts}}
      rows == [i \in 1..Cardinality(named) |-> [p \in Parts |-> Posted(form, p, i - 1)]]
  IN IF named = 0..(Cardinality(named) - 1) /\ named \subseteq 0..(MaxRows - 1)
     THEN [complete |-> Posted(form, "complete", None), mode |-> Posted(form, "mode", None),
           confirmed |-> Posted(form, "confirmed", None), rows |-> rows]
     ELSE None

-----------------------------------------------------------------------------
(* validateGeoQualitySave                                                     *)

BlankRow(row) == row.country = None /\ row.percent = None

AcceptableRow(row) ==
  \/ BlankRow(row)
  \/ row.country \in Country /\ row.percent # None /\ row.percent \in 0..100

CompleteUnchecked(input) == TRUE

Complete(input) == input.complete = TRUE

(* Nothing is kept of a form with any fault.                                  *)
Validate(input) ==
  LET ruled == {i \in DOMAIN input.rows : ~BlankRow(input.rows[i])}
      countries == {input.rows[i].country : i \in ruled}
      of(c) == input.rows[CHOOSE i \in ruled : input.rows[i].country = c]
  IN IF /\ input # None
        /\ Complete(input)
        /\ Len(input.rows) <= MaxRows
        /\ input.mode \in Modes
        /\ input.mode = "all" => input.confirmed = TRUE
        /\ \A i \in DOMAIN input.rows : AcceptableRow(input.rows[i])
        /\ Cardinality(countries) = Cardinality(ruled)
     THEN [rules |-> [c \in countries |-> of(c).percent],
           quality |-> [active |-> input.mode # "off",
                        scope |-> IF input.mode = "all" THEN "all" ELSE "selected",
                        countries |-> {c \in countries : of(c).quality = TRUE /\ of(c).percent > 0}]]
     ELSE None

Saved(form) == Validate(Reconstruct(form))

-----------------------------------------------------------------------------
(* The domain the form is saved for                                           *)

(* verifyManageableDomains: what MariaDB lists are the configured domains,    *)
(* each the same in everything that tells it from another, or nothing is      *)
(* manageable.                                                                *)
Manageable(observed) ==
  IF /\ Len(observed) = Cardinality(Domain)
     /\ {observed[i].id : i \in DOMAIN observed} = Domain
     /\ \A i \in DOMAIN observed : observed[i].same
  THEN Domain ELSE {}

(* selectManageableDomain: the first one, for a request that names none.      *)
Selected(domains, requested) ==
  IF requested = None /\ domains # {} THEN CHOOSE d \in domains : \A e \in domains : d <= e
  ELSE IF requested \in domains THEN requested ELSE None

SavedFor(form, observed) == Selected(Manageable(observed), Posted(form, "domain", None))

-----------------------------------------------------------------------------
(* The redirect                                                               *)

(* The cached object holds a rule per country and the policy; one that is     *)
(* too large is read as no rule and no policy (decodeGeoState).               *)
Decoded(state) ==
  IF Cardinality(DOMAIN state.rules \union {"policy"}) <= MaxRows + 1 THEN state
  ELSE [rules |-> [c \in {} |-> 0], quality |-> [active |-> FALSE, scope |-> "selected", countries |-> {}]]

(* What a visit from a country meets, the default of the domain aside.        *)
Treatment(state, c) ==
  LET explicit == c \in DOMAIN state.rules
      percent == IF explicit THEN state.rules[c] ELSE None
      quality == state.quality
  IN [percent |-> percent,
      vetoed |-> /\ quality.active /\ explicit /\ percent # 0
                 /\ quality.scope = "all" \/ c \in quality.countries]

-----------------------------------------------------------------------------
(* Properties, over the forms a person may fill in                            *)

TypedRows == [country : Country \union {None, "??"}, percent : {None, 0, 100, 101}, quality : BOOLEAN]

(* Any domain but the one that is taken by default.                           *)
Typed == {Form(CHOOSE d \in Domain : \E e \in Domain : e < d, mode, confirmed, rows) :
            mode \in Modes, confirmed \in BOOLEAN, rows \in BoundedSeq(TypedRows, MaxRows)}

Accepted == {f \in Typed : Saved(f) # None}

(* Of a form that was cut short nothing is saved, whatever arrived of it:     *)
(* less than all rows is never taken for a wish to delete the others          *)
(* ("a truncated form cannot become an authoritative delete-all save").       *)
TruncationRefused ==
  \A f \in Typed : \A n \in 0..(Len(f) - 1) : Saved(SubSeq(f, 1, n)) = None

(* What was accepted fits every limit on its way to the visits, the largest   *)
(* form included, and treats each country as it was typed.                    *)
AcceptedReachesVisits ==
  \A f \in Accepted, c \in Country :
    LET rows == Reconstruct(f).rows
        typed == {rows[i] : i \in {j \in DOMAIN rows : rows[j].country = c}}
        treatment == Treatment(Decoded(Saved(f)), c)
    IN /\ Cardinality(typed) <= 1
       /\ typed = {} => treatment = [percent |-> None, vetoed |-> FALSE]
       /\ \A row \in typed :
            /\ treatment.percent = row.percent
            /\ treatment.vetoed <=>
                 row.percent > 0 /\ (Posted(f, "mode", None) = "all" \/
                                       (Posted(f, "mode", None) = "selected" /\ row.quality = TRUE))

(* To save the page as it is shown changes no visit's treatment; it is        *)
(* refused only without a rule, for the row to fill in, and without the       *)
(* consent that "all" asks for.                                               *)
ResaveKeeps ==
  \A f \in Accepted, confirmed \in BOOLEAN :
    LET state == Saved(f)
        again == Saved(Form(Posted(f, "domain", None), ShownMode(state), confirmed, ShownRows(state)))
        refused == DOMAIN state.rules = {} \/ (ShownMode(state) = "all" /\ ~confirmed)
    IN IF refused THEN again = None
       ELSE again # None /\ \A c \in Country : Treatment(again, c) = Treatment(state, c)

(* A form is saved for the domain it was shown for or for none, though the    *)
(* rows of the domains were changed, swapped or removed since ("Admin never   *)
(* silently edits another domain after an identity drift").                   *)
Observations == BoundedSeq([id : Domain \union {0}, same : BOOLEAN], Cardinality(Domain))

DomainKept ==
  \A d \in Domain, observed \in Observations :
    LET form == Form(d, "off", FALSE, <<>>)
    IN \A n \in 0..Len(form) :
         Saved(SubSeq(form, 1, n)) # None /\ SavedFor(SubSeq(form, 1, n), observed) # None =>
           /\ SavedFor(SubSeq(form, 1, n), observed) = d
           /\ \A i \in DOMAIN observed : observed[i].id = d => observed[i].same

FormTruthful == TruncationRefused /\ AcceptedReachesVisits /\ ResaveKeeps /\ DomainKept
=============================================================================
