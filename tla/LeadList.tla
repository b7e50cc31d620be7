------------------------------- MODULE LeadList -------------------------------
(***************************************************************************)
(* The list of leads by score, read page by page.  The score is computed   *)
(* for each page from the tables, whose rows come in any order.            *)
(***************************************************************************)
EXTENDS Integers, FiniteSets, SequencesExt

CONSTANTS Ids,         \* natural numbers, in the order of the ids
          Profiles,    \* what the score is computed from, see Profile
          Instants,    \* of creation
          Sizes        \* of a page

VARIABLES
    leads,      \* the leads that match the filter
    query,      \* direction and size of a page
    total,      \* as of the last page
    pages       \* the ids on each page that was read

vars == <<leads, query, total, pages>>
-----------------------------------------------------------------------------
Sources == {"REFERRAL", "EVENT", "CHALLENGE", "REEL", "COMMENT", "KEYWORD", "STORY", "CAROUSEL",
            "WHATSAPP_GROUP", "OTHER", "NONE"}
SourceWeight(s) ==
    CASE s = "REFERRAL" -> 25 [] s = "EVENT" -> 20 [] s \in {"CHALLENGE", "REEL"} -> 15
      [] s \in {"COMMENT", "KEYWORD"} -> 12 [] s \in {"STORY", "CAROUSEL"} -> 10
      [] s = "WHATSAPP_GROUP" -> 8 [] s = "OTHER" -> 5 [] s = "NONE" -> 0
Stages == {"NONE", "NEW", "FIRST_CONTACT", "CALL_SCHEDULED", "PRE_CALL", "POST_CALL", "PROPOSAL_SENT",
           "FOLLOW_UP"}
StageProgressWeight(s) ==
    CASE s \in {"NONE", "NEW"} -> 0 [] s = "FIRST_CONTACT" -> 5 [] s = "CALL_SCHEDULED" -> 15
      [] s \in {"PRE_CALL", "FOLLOW_UP"} -> 20 [] s = "POST_CALL" -> 25 [] s = "PROPOSAL_SENT" -> 30

Never == 1000

\* entries: the hours from the creation to each entry into the pipeline.
Profile == [source: Sources, stage: Stages, entries: SUBSET (0..Never),
            painPoints: BOOLEAN, desires: BOOLEAN, objections: BOOLEAN]

TypeOK ==
    /\ leads \in [Ids -> [profile: Profile, createdAt: Instants]]
    /\ query \in [desc: BOOLEAN, take: Sizes]
    /\ total \in Nat
    /\ pages \in Seq(Seq(Ids))

Init ==
    /\ leads \in [Ids -> [profile: Profiles, createdAt: Instants]]
    /\ query \in [desc: BOOLEAN, take: Sizes]
    /\ total = 0 /\ pages = <<>>

If(condition, points) == IF condition THEN points ELSE 0

ComputeLeadScore(p, hours) ==
    LET sum == SourceWeight(p.source) + StageProgressWeight(p.stage)
               + If(p.painPoints, 15) + If(p.desires, 10) - If(p.objections, 10)
               + (IF hours <= 1 THEN 20 ELSE IF hours <= 24 THEN 10 ELSE 0)
    IN  IF sum < 0 THEN 0 ELSE IF sum > 100 THEN 100 ELSE sum

\* The events are read in no order, and the last of a lead stays in the map.
Entries(a) == IF leads[a].profile.entries = {} THEN {Never} ELSE leads[a].profile.entries
FirstPipelineEntries ==
    {entered \in [Ids -> UNION {Entries(a) : a \in Ids}] : \A a \in Ids : entered[a] \in Entries(a)}

Points(a, entered) == ComputeLeadScore(leads[a].profile, entered[a])

Better(score, other) == IF query.desc THEN score > other ELSE score < other

\* Mutant of Before: leads with the same score and date stay as the table gave them.
BeforeByDate(a, b, entered) ==
    \/ Better(Points(a, entered), Points(b, entered))
    \/ Points(a, entered) = Points(b, entered) /\ leads[a].createdAt > leads[b].createdAt

\* By score, the newest first, and the id where both are the same.
Before(a, b, entered) ==
    LET score == Points(a, entered)
        other == Points(b, entered)
    IN  \/ Better(score, other)
        \/ /\ score = other
           /\ \/ leads[a].createdAt > leads[b].createdAt
              \/ leads[a].createdAt = leads[b].createdAt /\ a < b

\* What comes before what; rows that are equal stay as they were.
Comes(a, b, rows, entered) ==
    LET At(c) == CHOOSE i \in DOMAIN rows : rows[i] = c IN
    Before(a, b, entered) \/ (~Before(b, a, entered) /\ At(a) < At(b))

\* The rows, sorted.
Ranked(rows, entered) ==
    [n \in DOMAIN rows |-> CHOOSE a \in Ids : Cardinality({b \in Ids : Comes(b, a, rows, entered)}) = n - 1]

Skip == Len(pages) * query.take

ListByScore == \E rows \in SetToSeqs(Ids), entered \in FirstPipelineEntries :
    /\ pages = <<>> \/ Skip < total
    /\ pages' = Append(pages, SubSeq(Ranked(rows, entered), Skip + 1,
                                     IF Skip + query.take < Len(rows) THEN Skip + query.take ELSE Len(rows)))
    /\ total' = Len(rows)
    /\ UNCHANGED <<leads, query>>

Next == ListByScore

Spec == Init /\ [][Next]_vars
-----------------------------------------------------------------------------
(* Properties *)

\* No lead entered the pipeline twice.
EnteredOnce == \A a \in Ids : Cardinality(Entries(a)) = 1

\* How many leads come before a, then.
Place(a) == LET entered == CHOOSE e \in FirstPipelineEntries : TRUE
            IN  Cardinality({b \in Ids : Before(b, a, entered)})

\* Inductive: the pages are one list, each goes on where the one before it ended.
PagesGoOn ==
    /\ total = IF pages = <<>> THEN 0 ELSE Cardinality(Ids)
    /\ EnteredOnce => \A k \in DOMAIN pages :
          /\ DOMAIN pages[k] = {i \in 1..query.take : (k - 1) * query.take + i <= Cardinality(Ids)}
          /\ \A i \in DOMAIN pages[k] : Place(pages[k][i]) = (k - 1) * query.take + i - 1

\* The pages together list every lead once, the better before the worse, in
\* whatever order the tables give their rows to each of the requests, as long
\* as no lead has entered the pipeline twice: which entry counts for the score
\* is then up to the request, and a lead may be on two pages or on none.
EachLeadOnOnePage ==
    (total > 0 /\ Skip >= total /\ EnteredOnce) =>
    LET entered == CHOOSE e \in FirstPipelineEntries : TRUE
        Places == {p \in (DOMAIN pages) \X (1..query.take) : p[2] \in DOMAIN pages[p[1]]}
        At(place) == pages[place[1]][place[2]]
        Earlier(p, q) == p[1] < q[1] \/ (p[1] = q[1] /\ p[2] < q[2])
    IN  /\ \A a \in Ids : \E p \in Places : At(p) = a /\ \A q \in Places : At(q) = a => q = p
        /\ \A p, q \in Places : Earlier(p, q) => ~Better(Points(At(q), entered), Points(At(p), entered))
=============================================================================
