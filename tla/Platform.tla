------------------------------ MODULE Platform ------------------------------
(* The vendor's side of one business: the subscription that its dates and   *)
(* its stored status make up, the payments that move those dates, the       *)
(* leases that let a till work offline, and the sign-in of the vendor's     *)
(* admins. Every change of the business holds its row lock to the commit    *)
(* (_load_business with lock), so it is one step; an admin's sign-in is     *)
(* several. Plans, notes and the audit trail are left out.                  *)

EXTENDS Integers, Sequences, FiniteSets, FiniteSetsExt

CONSTANTS
  TrialDays, GraceDays, LeaseDays,   \* settings
  MonthStarts,    \* the calendar: the day on which each month begins
  MaxDay,         \* bound: the last day that comes
  MaxPayments,    \* bound: payments recorded
  MaxPatches,     \* bound: subscription patches and suspensions
  Dates,          \* the dates an admin may type in
  SignIns         \* sign-in requests of one platform admin

ASSUME PlatformAssumption ==
  /\ {TrialDays, GraceDays, LeaseDays, MaxDay, MaxPayments, MaxPatches} \subseteq Nat
  /\ MonthStarts \in Seq(Nat) /\ MonthStarts[1] = 0
  /\ \A i, j \in DOMAIN MonthStarts : i < j => MonthStarts[i] < MonthStarts[j]
  /\ Dates \subseteq Nat

NoDate == -1

VARIABLES
  business,   \* subscription_status, trial_ends_at, subscription_ends_at, is_active
  today,
  patches,    \* patches and suspensions so far
  payments,   \* subscription_payments: period_start and period_end
  shortened,  \* history: an admin has set the end of the period back
  lease,      \* the lease a device holds, and whether its grounds still stand
  admin,      \* the row of platform_admins
  signIn,     \* what each sign-in request is doing
  codes,      \* history: the codes that were accepted, by secret and step
  codeCrossed \* history: a sign-in spanned a reset of the secret

platformVars == <<business, today, patches, payments, shortened, lease, admin, signIn, codes, codeCrossed>>
adminVars == <<admin, signIn, codes, codeCrossed>>

Days == Nat
Business == [status : {"trial", "active", "suspended", "cancelled"},
             trial : Days \cup {NoDate}, paid : Days \cup {NoDate}, active : BOOLEAN]
Steps == 0..MaxDay
Outside == [pc |-> "out", secret |-> 0, step |-> 0]

PlatformTypeOK ==
  /\ business \in Business
  /\ today \in 0..MaxDay
  /\ patches \in 0..MaxPatches
  /\ payments \in Seq([start : Days, end : Days])
  /\ shortened \in BOOLEAN
  /\ lease \in [until : Days, stands : BOOLEAN]
  /\ admin \in [secret : 0..1, last : Steps, tv : 0..1]
  /\ signIn \in [SignIns -> [pc : {"out", "checked", "in"}, secret : 0..1, step : Steps]]
  /\ codes \in [(0..1) \X Steps -> Nat]
  /\ codeCrossed \in BOOLEAN

\* register_new_business starts the trial.
PlatformInit ==
  /\ business = [status |-> "trial", trial |-> TrialDays, paid |-> NoDate, active |-> TRUE]
  /\ today = 0 /\ patches = 0
  /\ payments = <<>> /\ shortened = FALSE
  /\ lease = [until |-> 0, stands |-> FALSE]
  /\ admin = [secret |-> 0, last |-> 0, tv |-> 0]
  /\ signIn = [s \in SignIns |-> Outside]
  /\ codes = [c \in (0..1) \X Steps |-> 0]
  /\ codeCrossed = FALSE

-----------------------------------------------------------------------------
(* The status, three times: subscription.compute_state, the SQL of          *)
(* platform_service.status_case, and how long a lease may run.              *)

ComputeState(b, n) ==
  IF b.status \in {"suspended", "cancelled"} THEN b.status
  ELSE IF b.status = "trial" THEN IF b.trial # NoDate /\ n > b.trial THEN "expired" ELSE "trial"
  ELSE IF b.paid = NoDate \/ n <= b.paid THEN "active"
  ELSE IF n <= b.paid + GraceDays THEN "grace"
  ELSE "expired"

StatusCase(b, n) ==
  IF ~b.active \/ b.status = "suspended" THEN "suspended"
  ELSE IF b.status = "cancelled" THEN "cancelled"
  ELSE IF b.status = "trial" /\ b.trial # NoDate /\ b.trial < n THEN "expired"
  ELSE IF b.status = "trial" THEN "trial"
  ELSE IF b.paid = NoDate \/ b.paid >= n THEN "active"
  ELSE IF b.paid + GraceDays >= n THEN "grace"
  ELSE "expired"

\* compute_valid_until.
UncappedValidUntil(b, n) == n + LeaseDays
ValidUntil(b, n) ==
  LET state == ComputeState(b, n)
      cap == IF state = "trial" THEN b.trial ELSE IF b.paid = NoDate THEN NoDate ELSE b.paid + GraceDays
  IN  IF state \in {"expired", "suspended", "cancelled"} THEN n
      ELSE IF cap = NoDate THEN n + LeaseDays
      ELSE Min({n + LeaseDays, cap})

\* issue_lease, with every sign-in, refresh, /auth/me and /subscription/status.
IssueLease ==
  /\ business.active
  /\ lease' = [until |-> ValidUntil(business, today), stands |-> TRUE]
  /\ UNCHANGED <<business, today, patches, payments, shortened, adminVars>>

NextDay ==
  /\ today < MaxDay /\ today' = today + 1
  /\ UNCHANGED <<business, patches, payments, shortened, lease, adminVars>>

-----------------------------------------------------------------------------
(* patch_subscription, record_payment, set_suspended.                       *)

\* add_months: the day of the month, or the month's last day.
\* The months that the bounded calendar holds reach k months past day d.
InCalendar(d, k) == \E m \in 1..(Len(MonthStarts) - k - 1) : MonthStarts[m] <= d /\ d < MonthStarts[m + 1]
MonthOf(d) == CHOOSE m \in 1..(Len(MonthStarts) - 1) : MonthStarts[m] <= d /\ d < MonthStarts[m + 1]
AddMonths(d, k) ==
  LET m == MonthOf(d) IN
    MonthStarts[m + k] + Min({d - MonthStarts[m], MonthStarts[m + k + 1] - MonthStarts[m + k] - 1})

Change(b) ==
  /\ business' = b
  /\ lease' = [lease EXCEPT !.stands = FALSE]
  /\ UNCHANGED <<today, adminVars>>

Patched == patches < MaxPatches /\ patches' = patches + 1

\* A dated paid period replaces the trial. Either the date or the extension.
WithEnd(b, end) == [b EXCEPT !.paid = end, !.status = IF @ = "trial" THEN "active" ELSE @]
Extended(b, days) ==
  IF b.status = "trial" THEN [b EXCEPT !.trial = Max({today, @}) + days]
                        ELSE [b EXCEPT !.paid = Max({today, @}) + days]

PatchSubscription(status, end, days) ==
  /\ (end = NoDate \/ days = 0) /\ ~(status = business.status /\ end = NoDate /\ days = 0)
  /\ LET b1 == [business EXCEPT !.status = status]
         b2 == IF end = NoDate THEN b1 ELSE WithEnd(b1, end)
     IN  Change(IF days = 0 THEN b2 ELSE Extended(b2, days))
  /\ shortened' = (shortened \/ (end # NoDate /\ end < business.paid))
  /\ Patched
  /\ UNCHANGED payments

PeriodFromToday(b) == today
\* Max over the candidates: NoDate is below every date.
PeriodStart(b) == Max({today, b.paid} \cup (IF b.status = "trial" THEN {b.trial} ELSE {}))

RecordPayment(months) ==
  /\ Len(payments) < MaxPayments
  /\ LET start == PeriodStart(business)
         end == AddMonths(start, months) IN
       /\ InCalendar(start, months)
       /\ payments' = Append(payments, [start |-> start, end |-> end])
       /\ Change([business EXCEPT !.paid = end, !.status = "active"])
  /\ UNCHANGED <<patches, shortened>>

SetSuspended(suspend) ==
  /\ suspend \/ business.status \in {"suspended", "cancelled"}
  /\ Change([business EXCEPT !.status = IF suspend THEN "suspended"
                                        ELSE IF business.paid # NoDate THEN "active" ELSE "trial"])
  /\ Patched
  /\ UNCHANGED <<payments, shortened>>

\* No code writes is_active; an operator may.
SwitchOff ==
  /\ business.active
  /\ Change([business EXCEPT !.active = FALSE])
  /\ UNCHANGED <<patches, payments, shortened>>

-----------------------------------------------------------------------------
(* platform_admin_service.login: the row is read, the code is verified      *)
(* against the secret that was read, and one UPDATE records its time-step.  *)
(* A step is a day here. The lock after failed attempts is the users' one.  *)

CheckCode(s, step) ==
  /\ signIn[s].pc = "out" /\ step \in {today - 1, today, today + 1} \cap (1..MaxDay)
  /\ signIn' = [signIn EXCEPT ![s] = [pc |-> "checked", secret |-> admin.secret, step |-> step]]
  /\ UNCHANGED <<business, today, patches, payments, shortened, lease, admin, codes, codeCrossed>>

AnyStep(step) == TRUE
NewerStep(step) == admin.last < step

AcceptCode(s) ==
  LET step == signIn[s].step IN
    /\ signIn[s].pc = "checked"
    /\ IF NewerStep(step)
         THEN /\ admin' = [admin EXCEPT !.last = step]
              /\ codes' = [codes EXCEPT ![<<signIn[s].secret, step>>] = @ + 1]
              /\ codeCrossed' = (codeCrossed \/ signIn[s].secret # admin.secret)
              /\ signIn' = [signIn EXCEPT ![s].pc = "in"]
         ELSE /\ signIn' = [signIn EXCEPT ![s] = Outside]
              /\ UNCHANGED <<admin, codes, codeCrossed>>
    /\ UNCHANGED <<business, today, patches, payments, shortened, lease>>

SignOut(s) ==
  /\ signIn[s].pc = "in"
  /\ signIn' = [signIn EXCEPT ![s] = Outside]
  /\ UNCHANGED <<business, today, patches, payments, shortened, lease, admin, codes, codeCrossed>>

\* reset_admin_2fa: a new secret starts from step 0.
ResetAdmin2fa ==
  /\ admin.secret = 0
  /\ admin' = [secret |-> 1, last |-> 0, tv |-> 1]
  /\ UNCHANGED <<business, today, patches, payments, shortened, lease, signIn, codes, codeCrossed>>

Subscribe ==
  \/ IssueLease
  \/ \E status \in {"trial", "active", "suspended", "cancelled"}, end \in Dates \cup {NoDate}, days \in 0..1 :
       PatchSubscription(status, end, days)
  \/ \E months \in 1..2 : RecordPayment(months)
  \/ \E suspend \in BOOLEAN : SetSuspended(suspend)
  \/ SwitchOff

Administer == (\E s \in SignIns : AcceptCode(s) \/ SignOut(s) \/ \E step \in Steps : CheckCode(s, step)) \/ ResetAdmin2fa

PlatformNext == NextDay \/ Subscribe \/ Administer

PlatformSpec == PlatformInit /\ [][PlatformNext]_platformVars

-----------------------------------------------------------------------------

\* A lease that a device still honours, and whose grounds nobody has changed,
\* never reaches past the access that status_case, on the vendor's dashboard,
\* shows for that day: compute_valid_until, compute_state and the SQL agree
\* on trials, paid periods and grace, to the day.
LeaseWithinAccess ==
  today < lease.until /\ lease.stands => StatusCase(business, today) \in {"trial", "active", "grace"}

\* "Paying early never loses days": the periods that two payments bought do
\* not overlap, whatever trials, extensions, suspensions and reactivations
\* came between them, unless an admin set the end of the period back.
PeriodsDisjoint ==
  shortened \/ \A i, j \in DOMAIN payments : i < j => payments[j].start >= payments[i].end

\* "A code works once": of concurrent sign-ins with one code only one passes
\* the UPDATE of last_totp_step. The exception is a sign-in that had verified
\* its code against a secret that reset_admin_2fa replaced meanwhile.
CodeWorksOnce == codeCrossed \/ \A c \in DOMAIN codes : codes[c] <= 1

=============================================================================
