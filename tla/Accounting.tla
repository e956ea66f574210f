----------------------------- MODULE Accounting -----------------------------
(* Chart of accounts and journal: accounting_coa_service,                   *)
(* accounting_coa_seed_service and accounting_journal_service. Only posting *)
(* locks the entry it works on.                                             *)
EXTENDS Desk, Integers, FiniteSets, FiniteSetsExt

CONSTANTS Accounts, SystemAccounts, Entries, AccountTypes

ASSUME AccountingAssumption ==
  SystemAccounts \subseteq Accounts /\ Nil \notin Accounts /\ AccountTypes # {}

VARIABLES
  account,    \* chart_of_accounts
  entry       \* journal_entries with their journal_lines

bookVars == <<account, entry>>

\* A line is a debit (1) or a credit (-1). A row also says who inserted it,
\* and of which type its account was then (history).
JournalLine == [by : Clerks, acct : Accounts, net : {1, -1}, type : AccountTypes]
ChartOfAccount == [status : {"none", "live", "deleted"}, active : BOOLEAN, parent : Accounts \cup {Nil}, type : AccountTypes]
JournalEntry == [status : {"none", "draft", "posted", "deleted"}, rows : SUBSET JournalLine]

AccountingTypeOK ==
  /\ account \in [Accounts -> ChartOfAccount]
  /\ entry \in [Entries -> JournalEntry]

AccountingInit ==
  /\ account \in [Accounts -> [status : {"none"}, active : {TRUE}, parent : {Nil}, type : {CHOOSE t \in AccountTypes : TRUE}]]
  /\ entry = [e \in Entries |-> [status |-> "none", rows |-> {}]]

-----------------------------------------------------------------------------
(* Chart of accounts.                                                       *)

LiveAccount(a) == account[a].status = "live"
ChildrenOf(a) == {b \in Accounts : LiveAccount(b) /\ account[b].parent = a}
HasJournalLines(a) == \E e \in Entries : \E r \in entry[e].rows : r.acct = a
HasActiveChildren(a) == ChildrenOf(a) # {}

\* What _assert_no_parent_cycle visits: the smallest set that holds the
\* children of a and, with an account, its children.
Descendants(a) ==
  CHOOSE d \in SUBSET Accounts :
    LET Closed(x) == ChildrenOf(a) \subseteq x /\ \A b \in x : ChildrenOf(b) \subseteq x IN
    Closed(d) /\ \A x \in SUBSET Accounts : Closed(x) => d \subseteq x

ValidParent(a, p) == p # Nil => p # a /\ LiveAccount(p) /\ p \notin Descendants(a)

\* seed_default_chart_of_accounts, when accounting is switched on.
SeedDefaultChart ==
  /\ \A a \in Accounts : ~LiveAccount(a)
  /\ account' = [a \in Accounts |-> IF a \in SystemAccounts THEN [account[a] EXCEPT !.status = "live"] ELSE account[a]]
  /\ UNCHANGED <<entry, desk, stale>>

CreateAccountRead(c, a, r) ==
  /\ account[a].status = "none" /\ a \notin SystemAccounts
  /\ ValidParent(a, r.parent)
  /\ Read(c, [pc |-> "createAccount", acct |-> a, parent |-> r.parent, active |-> r.active, type |-> r.type])
  /\ UNCHANGED bookVars

\* The unique account code lets one of two requests for one account pass.
CreateChartOfAccount(c) ==
  LET t == desk[c]
      new == account[t.acct].status = "none" IN
  /\ t.pc = "createAccount"
  /\ account' = IF new THEN [account EXCEPT ![t.acct] = [status |-> "live", active |-> t.active, parent |-> t.parent, type |-> t.type]]
                       ELSE account
  /\ Commit(c, t.acct, new /\ t.parent # Nil /\ ~LiveAccount(t.parent))
  /\ UNCHANGED entry

AlwaysRetype(a, old, new) == TRUE
MayRetype(a, old, new) == new # old => ~HasJournalLines(a)

\* update_chart_of_account: the columns of the request `r' are written where
\* they differ; the type is kept once the account has lines.
UpdateAccountRead(c, a, r) ==
  /\ LiveAccount(a)
  /\ r.parent = account[a].parent \/ ValidParent(a, r.parent)
  /\ MayRetype(a, account[a].type, r.type)
  /\ Read(c, [pc |-> "updateAccount", acct |-> a, seen |-> account[a], to |-> r])
  /\ UNCHANGED bookVars

UpdateChartOfAccount(c) ==
  LET t == desk[c]
      seen == t.seen
      Written(old, new, now) == IF new = old THEN now ELSE new IN
  /\ t.pc = "updateAccount"
  /\ account' = [account EXCEPT ![t.acct].parent = Written(seen.parent, t.to.parent, @),
                                ![t.acct].active = Written(seen.active, t.to.active, @),
                                ![t.acct].type = Written(seen.type, t.to.type, @)]
  /\ Commit(c, t.acct, \/ t.to.parent # seen.parent /\ ~ValidParent(t.acct, t.to.parent)
                       \/ ~MayRetype(t.acct, seen.type, t.to.type))
  /\ UNCHANGED entry

Unused(a) == ~HasActiveChildren(a) /\ ~HasJournalLines(a)
DeleteAccountRead(c, a) ==
  /\ LiveAccount(a) /\ a \notin SystemAccounts /\ Unused(a)
  /\ Read(c, [pc |-> "deleteAccount", acct |-> a])
  /\ UNCHANGED bookVars

DeleteChartOfAccount(c) ==
  LET a == desk[c].acct IN
  /\ desk[c].pc = "deleteAccount"
  /\ account' = [account EXCEPT ![a].status = "deleted"]
  /\ Commit(c, a, HasActiveChildren(a) \/ HasJournalLines(a))
  /\ UNCHANGED entry

-----------------------------------------------------------------------------
(* Journal entries.                                                         *)

ValidAccounts(lines) == \A l \in lines : LiveAccount(l.acct) /\ account[l.acct].active
RowsOf(c, sheet) == {[by |-> c, acct |-> l.acct, net |-> l.net, type |-> account[l.acct].type] : l \in sheet}

CreateEntryRead(c, e, sheet) ==
  /\ entry[e].status = "none" /\ \A d \in Clerks : desk[d].pc = "createEntry" => desk[d].entry # e
  /\ ValidAccounts(sheet)
  /\ Read(c, [pc |-> "createEntry", entry |-> e, sheet |-> sheet])
  /\ UNCHANGED bookVars

CreateJournalEntry(c) ==
  LET t == desk[c] IN
  /\ t.pc = "createEntry"
  /\ entry' = [entry EXCEPT ![t.entry] = [status |-> "draft", rows |-> RowsOf(c, t.sheet)]]
  /\ Commit(c, t.entry, FALSE)
  /\ UNCHANGED account

\* update_journal_entry: the delete statement of _replace_journal_lines finds
\* the rows that are there when it starts.
UpdateEntryRead(c, e, sheet) ==
  /\ entry[e].status = "draft" /\ ValidAccounts(sheet)
  /\ Read(c, [pc |-> "updateEntry", entry |-> e, sheet |-> sheet, found |-> entry[e].rows])
  /\ UNCHANGED bookVars

UpdateJournalEntry(c) ==
  LET t == desk[c] IN
  /\ t.pc = "updateEntry"
  /\ entry' = [entry EXCEPT ![t.entry].rows = (@ \ t.found) \cup RowsOf(c, t.sheet)]
  /\ Commit(c, t.entry, entry[t.entry].status # "draft")
  /\ UNCHANGED account

DeleteEntryRead(c, e) ==
  /\ entry[e].status = "draft"
  /\ Read(c, [pc |-> "deleteEntry", entry |-> e, found |-> entry[e].rows])
  /\ UNCHANGED bookVars

DeleteJournalEntry(c) ==
  LET t == desk[c] IN
  /\ t.pc = "deleteEntry"
  /\ entry' = [entry EXCEPT ![t.entry].status = "deleted", ![t.entry].rows = @ \ t.found]
  /\ Commit(c, t.entry, entry[t.entry].status # "draft")
  /\ UNCHANGED account

\* _assert_balanced_for_post.
Net(rows) == MapThenSumSet(LAMBDA r : r.net, rows)
BalancedForPost(rows) == Cardinality(rows) >= 2 /\ Net(rows) = 0

PostJournalEntry(e) ==
  /\ entry[e].status = "draft"
  /\ BalancedForPost(entry[e].rows) /\ ValidAccounts(entry[e].rows)
  /\ entry' = [entry EXCEPT ![e].status = "posted"]
  /\ UNCHANGED <<account, desk, stale>>

-----------------------------------------------------------------------------

\* With the accounts, the contents of an account and the lines that requests
\* may name.
ChartWork(c, accounts, contents) ==
  \/ \E a \in accounts, r \in contents : CreateAccountRead(c, a, r) \/ UpdateAccountRead(c, a, r)
  \/ \E a \in accounts : DeleteAccountRead(c, a)
  \/ CreateChartOfAccount(c) \/ UpdateChartOfAccount(c) \/ DeleteChartOfAccount(c)

JournalWork(c, sheets) ==
  \/ \E e \in Entries, s \in sheets : CreateEntryRead(c, e, s) \/ UpdateEntryRead(c, e, s)
  \/ \E e \in Entries : DeleteEntryRead(c, e)
  \/ CreateJournalEntry(c) \/ UpdateJournalEntry(c) \/ DeleteJournalEntry(c)

PostOrSeed == SeedDefaultChart \/ \E e \in Entries : PostJournalEntry(e)

AccountData == [parent : Accounts \cup {Nil}, active : BOOLEAN, type : AccountTypes]
AccountingNext ==
  \/ PostOrSeed
  \/ \E c \in Clerks : ChartWork(c, Accounts, AccountData) \/ JournalWork(c, SUBSET [acct : Accounts, net : {1, -1}])
AccountingSpec == AccountingInit /\ DeskInit /\ [][AccountingNext]_<<bookVars, deskVars>>

-----------------------------------------------------------------------------

\* A posted entry stays what post_journal_entry accepted: at least two lines,
\* in balance, on accounts that still exist and still have the type under
\* which the line was booked; accounts and drafts may be edited and deleted
\* around it. Excepted are entries and accounts that a request wrote after
\* its check had become outdated.
PostedStaysSound ==
  \A e \in Entries \ stale :
    entry[e].status = "posted" =>
      /\ BalancedForPost(entry[e].rows)
      /\ \A r \in entry[e].rows : r.acct \notin stale => LiveAccount(r.acct) /\ account[r.acct].type = r.type

\* The chart is a forest of live accounts: no account is below itself, where
\* _assert_no_parent_cycle would never end, and no parent is deleted. Two
\* moves that cross, or a move and a delete, can break it; one request at a
\* time cannot.
AccountsFormTree ==
  stale \cap Accounts = {} =>
    \A a \in Accounts : LiveAccount(a) =>
      /\ a \notin Descendants(a)
      /\ account[a].parent # Nil => LiveAccount(account[a].parent)

\* The books stay in order: what was posted, and the chart it was posted to.
BooksInOrder == PostedStaysSound /\ AccountsFormTree

=============================================================================
