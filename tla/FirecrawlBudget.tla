--------------------------- MODULE FirecrawlBudget ---------------------------
(***************************************************************************)
(* The Firecrawl credits of one question (bot/scrapers/firecrawl_scrape.py *)
(* and its caller in bot/scrapers/fetch.py).                               *)
(*                                                                         *)
(* A scrape is charged one credit before its request, refunded when it     *)
(* fails, and topped up when Firecrawl says that it cost more.  General    *)
(* research leaves a reserve to the resolution sources until their scraper *)
(* is done.  The books are kept per scope, and the scope is the question:  *)
(* a retry of the question finds the books of its first attempt, and the   *)
(* scrapes that the first attempt left behind still use them.              *)
(***************************************************************************)
EXTENDS Integers, FiniteSets, Functions

CONSTANTS
    Scrapes,                \* calls of firecrawl_scrape_page
    Resolution,             \* those with priority=True
    Cap,                    \* FIRECRAWL_QUESTION_CREDIT_CAP
    Reserve,                \* FIRECRAWL_RESOLUTION_CREDIT_RESERVE
    EnableResolution,       \* ENABLE_RESOLUTION_SOURCE_RESEARCH
    Slots,                  \* scrapes that run at once: the callers' semaphores
    MaxCost,                \* bound: credits Firecrawl bills for one page
    MaxAttempts             \* attempts of the question: two with its retry

ASSUME ScrapesAssumption == IsFiniteSet(Scrapes) /\ Resolution \subseteq Scrapes
ASSUME CreditsAssumption ==
    /\ {Cap, Reserve, Slots} \subseteq Nat
    /\ {MaxCost, MaxAttempts} \subseteq Nat \ {0}
    /\ EnableResolution \in BOOLEAN

VARIABLES
    spent,          \* _spent
    prioritySpent,  \* _priority_spent
    released,       \* _reserve_released
    exhausted,      \* _exhausted, of the whole process
    pc,             \* where each scrape is
    attempt,        \* attempts of the question so far
    searching,      \* attempts whose resolution scraper is not done
    wire,           \* Firecrawl: requests it may still run
    bill            \* Firecrawl: credits it billed for each scrape

books == <<spent, prioritySpent, released>>
question == <<attempt, searching>>
firecrawl == <<wire, bill>>
vars == <<books, exhausted, pc, question, firecrawl>>

-----------------------------------------------------------------------------
Waiting == {"sent", "resent"}               \* for Firecrawl's answer
InFlight == {s \in Scrapes : pc[s] \in Waiting \cup {"backoff"}}

\* Scrapes whose pre-charge was kept so far.
Charged == InFlight \cup {s \in Scrapes : pc[s] \in {"kept", "cancelled"}}

AtLeastZero(n) == IF n < 0 THEN 0 ELSE n

\* Mutant: a resolution scrape lowers the reserve and is not reserved for.
ReservedMutant(s) == 0

\* `reserve' of _budget_allows_locked.
Reserved(s) ==
    IF s \notin Resolution /\ EnableResolution /\ ~released
    THEN AtLeastZero(Reserve - prioritySpent)
    ELSE 0

\* Mutant: the credit about to be charged is not counted.
BudgetAllowsMutant(s) == spent <= Cap - Reserved(s)

BudgetAllows(s) == spent + 1 <= Cap - Reserved(s)

Priority(s) == IF s \in Resolution THEN 1 ELSE 0

\* Mutants: the priority count is not refunded; refunded to every scrape.
RefundMutant(s) ==
    /\ spent' = AtLeastZero(spent - 1)
    /\ UNCHANGED prioritySpent
RefundAnyMutant(s) ==
    /\ spent' = AtLeastZero(spent - 1)
    /\ prioritySpent' = prioritySpent - 1

Refund(s) ==
    /\ spent' = AtLeastZero(spent - 1)
    /\ prioritySpent' = AtLeastZero(prioritySpent - Priority(s))

ExtraCredits(cost) == IF cost > 1 THEN cost - 1 ELSE 0

MoveTo(s, place) == pc' = [pc EXCEPT ![s] = place]

-----------------------------------------------------------------------------
Init ==
    /\ spent = 0 /\ prioritySpent = 0 /\ released = FALSE
    /\ exhausted \in BOOLEAN        \* another question may have found out
    /\ pc = [s \in Scrapes |-> "idle"]
    /\ attempt = 1 /\ searching = {1}
    /\ wire = {}
    /\ bill = [s \in Scrapes |-> 0]

\* _try_charge and the first POST.
Charge(s) ==
    /\ pc[s] = "idle" /\ ~exhausted /\ BudgetAllows(s)
    /\ Cardinality(InFlight) < Slots
    /\ spent' = spent + 1
    /\ prioritySpent' = prioritySpent + Priority(s)
    /\ MoveTo(s, "sent")
    /\ wire' = wire \cup {s}
    /\ UNCHANGED <<released, exhausted, question, bill>>

\* Firecrawl is disabled for the run, or the question's budget is reached.
Skip(s) ==
    /\ pc[s] = "idle" /\ (exhausted \/ ~BudgetAllows(s))
    /\ MoveTo(s, "skipped")
    /\ UNCHANGED <<books, exhausted, question, firecrawl>>

\* HTTP 429, the first one: wait, and post once more.
RateLimited(s) ==
    /\ pc[s] = "sent" /\ s \in wire
    /\ MoveTo(s, "backoff")
    /\ wire' = wire \ {s}
    /\ UNCHANGED <<books, exhausted, question, bill>>

Resend(s) ==
    /\ pc[s] = "backoff"
    /\ MoveTo(s, "resent")
    /\ wire' = wire \cup {s}
    /\ UNCHANGED <<books, exhausted, question, bill>>

\* An answer that is no scrape: a second 429, a page error, or one that says the
\* key is spent; fetch_page then disables Firecrawl before anything else runs.
Rejected(s) ==
    /\ pc[s] \in Waiting /\ s \in wire
    /\ Refund(s)
    /\ MoveTo(s, "refunded")
    /\ exhausted' \in {exhausted, TRUE}
    /\ wire' = wire \ {s}
    /\ UNCHANGED <<released, question, bill>>

\* httpx.HTTPError: no connection, or no answer in time.
NoAnswer(s) ==
    /\ pc[s] \in Waiting
    /\ Refund(s)
    /\ MoveTo(s, "refunded")
    /\ UNCHANGED <<released, exhausted, question, firecrawl>>

\* A 2xx answer with a page: the charge stays, and is topped up.
Scraped(s) ==
    /\ pc[s] \in Waiting /\ bill[s] > 0
    /\ spent' = spent + ExtraCredits(bill[s])
    /\ MoveTo(s, "kept")
    /\ UNCHANGED <<prioritySpent, released, exhausted, question, firecrawl>>

\* A 2xx answer without a page: the charge stays.
Unusable(s) ==
    /\ pc[s] \in Waiting /\ bill[s] = 1
    /\ MoveTo(s, "kept")
    /\ exhausted' \in {exhausted, TRUE}
    /\ UNCHANGED <<books, question, firecrawl>>

\* The task is cancelled: CancelledError is not an HTTPError.
Cancel(s) ==
    /\ s \in InFlight
    /\ MoveTo(s, "cancelled")
    /\ UNCHANGED <<books, exhausted, question, firecrawl>>

\* Firecrawl runs the request, whether or not anyone still waits for it.
Run(s, cost) ==
    /\ s \in wire
    /\ wire' = wire \ {s}
    /\ bill' = [bill EXCEPT ![s] = cost]
    /\ UNCHANGED <<books, exhausted, pc, question>>

\* Another question's scrape finds the key spent.
ExhaustedElsewhere ==
    /\ ~exhausted
    /\ exhausted' = TRUE
    /\ UNCHANGED <<books, pc, question, firecrawl>>

\* The resolution scraper has no URL, is done, or is cancelled.
ReleaseReserve(a) ==
    /\ a \in searching
    /\ searching' = searching \ {a}
    /\ released' = TRUE
    /\ UNCHANGED <<spent, prioritySpent, exhausted, pc, attempt, firecrawl>>

\* The question failed and is retried, under the same scope.
Retry ==
    /\ attempt < MaxAttempts
    /\ attempt' = attempt + 1
    /\ searching' = searching \cup {attempt'}
    /\ UNCHANGED <<books, exhausted, pc, firecrawl>>

Done ==
    /\ \A s \in Scrapes : pc[s] # "idle" /\ s \notin InFlight
    /\ UNCHANGED vars

Next ==
    \/ \E s \in Scrapes :
          \/ Charge(s) \/ Skip(s) \/ RateLimited(s) \/ Resend(s) \/ Rejected(s)
          \/ NoAnswer(s) \/ Scraped(s) \/ Unusable(s) \/ Cancel(s)
          \/ \E cost \in 1..MaxCost : Run(s, cost)
    \/ \E a \in 1..MaxAttempts : ReleaseReserve(a)
    \/ ExhaustedElsewhere \/ Retry \/ Done

Spec == Init /\ [][Next]_vars

-----------------------------------------------------------------------------
(* Properties.                                                             *)

TypeOK ==
    /\ spent \in Nat /\ prioritySpent \in Nat
    /\ released \in BOOLEAN /\ exhausted \in BOOLEAN
    /\ pc \in [Scrapes -> {"idle", "sent", "backoff", "resent", "skipped",
                           "kept", "refunded", "cancelled"}]
    /\ attempt \in 1..MaxAttempts /\ searching \subseteq 1..MaxAttempts
    /\ wire \subseteq Scrapes
    /\ bill \in [Scrapes -> 0..MaxCost]

\* Every refund undoes one charge of its own kind: the priority count, which the
\* reserve is computed from, is the number of live resolution charges, the total is
\* at least the number of all, and no refund is ever cut off at zero.
BooksBalance ==
    /\ prioritySpent = Cardinality(Charged \cap Resolution)
    /\ spent >= Cardinality(Charged)

\* "Resolution URLs keep first claim on the budget even though both paths run
\* concurrently": until the reserve is released, general scrapes hold no more than
\* the credits outside it, however resolution scrapes are charged and refunded.
FirstClaim ==
    EnableResolution /\ ~released =>
        Cardinality(Charged \ Resolution) <= AtLeastZero(Cap - Reserve)

\* Top-ups come after the answer, so the cap can be overrun; never by more than
\* the extra credits of the scrapes that run at once.
OverrunBounded == spent <= Cap + Slots * (MaxCost - 1)


\* The credits are spent in the order and within the bounds the books promise.
CreditsAreHeld == TypeOK /\ FirstClaim /\ OverrunBounded
=============================================================================
