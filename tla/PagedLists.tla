----------------------------- MODULE PagedLists -----------------------------
(***************************************************************************)
(* What the commands that read a list page by page have in common. A page  *)
(* is what the API holds when it answers for that page; between two pages  *)
(* others may create and delete.                                           *)
(***************************************************************************)
EXTENDS CliCommand, Sequences, Integers, FiniteSets

CONSTANTS
    PageSize,  \* VOLUME_LIST_PAGE_SIZE, and those of the other lists
    MaxPages   \* VOLUME_LIST_MAX_PAGES, likewise

ASSUME PagesAssumption == PageSize \in Nat \ {0} /\ MaxPages \in Nat \ {0}

-----------------------------------------------------------------------------
(* The API (external): its pages, and total_page_number.                   *)

PageCount(list) ==
    IF list = <<>> THEN 1 ELSE (Len(list) + PageSize - 1) \div PageSize

ItemsOn(list, n) ==
    {list[i] : i \in {i \in DOMAIN list : (i - 1) \div PageSize + 1 = n}}

AnswerPage(p, path, list, total) ==
    AnswerGet(p, path, [items |-> ItemsOn(list, call[p].request.arg.page),
                        total |-> total])

-----------------------------------------------------------------------------
\* `of` says what is listed, where that has to be said.
PageRequest(path, of, n) == Request("GET", path, [page |-> n, of |-> of])

\* The commands that have read a part of this list, and will read on.
Paging(path) ==
    {q \in Proc : /\ pc[q] \in {"list", "volume-verify"}
                  /\ call[q].request.path = path}

NextNumber(p) == call[p].request.arg.page + 1

\* A faulty variant: the limit is checked for the page just read.
AtLimitLate(p) == NextNumber(p) - 1 > MaxPages

AtLimit(p) == NextNumber(p) > MaxPages

\* A faulty variant: `<` instead of `<=` in the condition of the loop.
IsLastPageEarly(p) ==
    IF Value(p).total = None THEN Cardinality(Value(p).items) < PageSize
    ELSE NextNumber(p) >= Value(p).total

\* Without a number of pages, a page that is not full is the last one.
IsLastPage(p) ==
    IF Value(p).total = None THEN Cardinality(Value(p).items) < PageSize
    ELSE NextNumber(p) > Value(p).total
=============================================================================
