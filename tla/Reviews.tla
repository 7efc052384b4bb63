-------------------------------- MODULE Reviews --------------------------------
(***************************************************************************)
(* Customer feedback (apps/api/src/modules/reviews): one review per        *)
(* collected order, moderated by operators, and the rating of the shop,    *)
(* which every writer recomputes in its own transaction.                   *)
(*                                                                         *)
(* A request checks in one step, writes its row and computes the aggregate *)
(* in a second, and commits in a third.  Transactions are READ COMMITTED:  *)
(* the aggregate sees committed rows and its own; waiting for the lock of  *)
(* the shop's row does not make it look again.                             *)
(***************************************************************************)
EXTENDS Ordering, FiniteSetsExt

CONSTANTS
  Ratings,   \* the stars a customer may give
  Writers    \* requests that may be under way at a time

ASSUME RatingAssumption == Ratings \subseteq 1 .. 5

VARIABLES
  reviews,   \* the review of each order, if there is one
  rating,    \* merchants.ratingAvg and ratingCount, as <<sum, count>>
  writing    \* each request: what it does, read, wrote and computed

reviewVars == <<reviews, rating, writing>>

-----------------------------------------------------------------------------
NoReview == [stars |-> 0, hidden |-> FALSE]

AtRest ==
  [stage |-> "none", does |-> "nothing", order |-> "none", stars |-> 0,
   recomputes |-> FALSE, row |-> NoReview, result |-> <<0, 0>>,
   overtaken |-> FALSE]

ReviewsInit ==
  /\ reviews = [o \in Orders |-> NoReview]
  /\ rating = <<0, 0>>
  /\ writing = [w \in Writers |-> AtRest]

Exists(o) == reviews[o] # NoReview

-----------------------------------------------------------------------------
(* The checks before the transaction: eligibility, ownership, moderation.  *)
Allowed(o, does) ==
  \/ does = "create" /\ orders[o].status = "COMPLETED" /\ ~Exists(o)
  \/ does \in {"update", "withdraw", "hide"} /\ Exists(o) /\ ~reviews[o].hidden
  \/ does = "unhide" /\ reviews[o].hidden

(* update recomputes only when the stars differ from those it has read;    *)
(* every other request does.                                               *)
Recomputes(o, does, stars) == does = "update" => stars # reviews[o].stars

ReviewCheck(w, o, does, stars) ==
  /\ writing[w] = AtRest
  /\ Allowed(o, does)
  /\ does \notin {"create", "update"} => stars = reviews[o].stars
  /\ writing' = [writing EXCEPT ![w] =
       [AtRest EXCEPT !.stage = "checked", !.does = does, !.order = o,
                      !.stars = stars,
                      !.recomputes = Recomputes(o, does, stars)]]
  /\ UNCHANGED <<reviews, rating>>

(* The row as the statement leaves it, on the version the lock found.      *)
Rewritten(w) ==
  LET row == reviews[writing[w].order] IN
  CASE writing[w].does = "create"   -> [stars |-> writing[w].stars, hidden |-> FALSE]
    [] writing[w].does = "update"   -> [row EXCEPT !.stars = writing[w].stars]
    [] writing[w].does = "withdraw" -> NoReview
    [] writing[w].does = "hide"     -> [row EXCEPT !.hidden = TRUE]
    [] writing[w].does = "unhide"   -> [row EXCEPT !.hidden = FALSE]

(* Mutation of recomputeMerchantRating: hidden reviews count.              *)
recomputeWithHidden(rows) ==
  <<MapThenSumSet(LAMBDA o : rows[o].stars, Orders),
    Cardinality({o \in Orders : rows[o] # NoReview})>>

recomputeMerchantRating(rows) ==
  LET visible == {o \in Orders : rows[o] # NoReview /\ ~rows[o].hidden}
  IN <<MapThenSumSet(LAMBDA o : rows[o].stars, visible), Cardinality(visible)>>

(* An open transaction holds the row (or its unique key) until it ends.    *)
RowLocked(o) ==
  \E w \in Writers : writing[w].stage = "written" /\ writing[w].order = o

(* The row changes inside the transaction and the aggregate is computed.   *)
ReviewWrite(w) ==
  LET o == writing[w].order IN
  /\ writing[w].stage = "checked"
  /\ ~RowLocked(o)
  /\ writing[w].does = "create" <=> ~Exists(o)
  /\ writing' = [writing EXCEPT
       ![w].stage = "written", ![w].does = "nothing", ![w].stars = 0,
       ![w].row = Rewritten(w),
       ![w].result = IF writing[w].recomputes
         THEN recomputeMerchantRating([reviews EXCEPT ![o] = Rewritten(w)])
         ELSE rating]
  /\ UNCHANGED <<reviews, rating>>

(* Row and rating commit together.  History: whom this commit overtakes.   *)
ReviewCommit(w) ==
  /\ writing[w].stage = "written"
  /\ reviews' = [reviews EXCEPT ![writing[w].order] = writing[w].row]
  /\ rating' = IF writing[w].recomputes THEN writing[w].result ELSE rating
  /\ writing' = [v \in Writers |->
       IF v = w \/ writing[v] = AtRest THEN AtRest
       ELSE [writing[v] EXCEPT !.overtaken = TRUE]]

(* A unique index, a row that is gone, a lost connection.                  *)
ReviewAbort(w) ==
  /\ writing[w] # AtRest
  /\ writing' = [writing EXCEPT ![w] = AtRest]
  /\ UNCHANGED <<reviews, rating>>

Reviewing(w) ==
  \/ \E o \in Orders, stars \in Ratings,
        does \in {"create", "update", "withdraw", "hide", "unhide"} :
          ReviewCheck(w, o, does, stars)
  \/ ReviewWrite(w) \/ ReviewCommit(w) \/ ReviewAbort(w)

-----------------------------------------------------------------------------
(* Properties.                                                             *)

(* The cached rating is that of the visible reviews in the table.          *)
RatingIsExact ==
  LET visible == {o \in Orders : Exists(o) /\ ~reviews[o].hidden}
  IN rating = <<MapThenSumSet(LAMBDA o : reviews[o].stars, visible),
               Cardinality(visible)>>

(* The class comment: recomputing cannot drift.  A request that nobody     *)
(* overtook between its check and its commit leaves an exact rating exact, *)
(* and one that recomputes repairs a rating that had drifted: overlapping  *)
(* requests are the only way to drift.                                     *)
RatingDriftsOnlyByOverlap ==
  [][reviews' # reviews =>
       \A w \in Writers :
         /\ writing[w] # AtRest /\ writing'[w] = AtRest
         /\ ~writing[w].overtaken
         /\ writing[w].recomputes \/ RatingIsExact
         => RatingIsExact']_reviewVars

=============================================================================
