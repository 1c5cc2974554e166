----------------------------- MODULE ListTables -----------------------------
(***************************************************************************)
(* What the list pages of the staff front end put on the screen: the       *)
(* filters of each panel with how many values one can hold, the columns    *)
(* that can be sorted with the key each sends, the filters shown as chips, *)
(* and what the server accepts.  Labels, layout and cell contents are left *)
(* out.  ListPages is the behaviour built on these tables.                 *)
(***************************************************************************)
EXTENDS FiniteSets, TLC

\* A checkbox group holds any number of values, a select or a toggle one.
Many(fields) == [f \in fields |-> "many"]
One(fields) == [f \in fields |-> "one"]

\* Two tables as one.  (The provers know nothing of @@ of TLC.)
Joined(table, more) ==
    [f \in DOMAIN table \cup DOMAIN more |-> IF f \in DOMAIN table THEN table[f] ELSE more[f]]

\* A table of columns gives the key each header sends: "-" for a header that
\* is no button, "here" for one that sorts only the rows already on the page.
Still(keys) == [k \in keys |-> "-"]
Sent(columns) == {columns[k] : k \in DOMAIN columns} \ {"-", "here"}

----------------------------------------------------------------------------
(* Cases: resources/js/Pages/Case/Index.jsx *)

CasesGroups == Many({"status", "client_type", "vulnerability_indicator",
                     "category_ids", "case_issue_id", "user_id", "agcy_id"})

CasesScalars == One({"age_min_days", "date_from", "date_to"})

\* The dashboard can also bring a referral_state, shown only when it is "none".
CasesChips == DOMAIN CasesGroups \cup {"age_min_days", "referral_state"}

\* Merged cells send the key of the identifier they lead with.
CasesColumnsA ==
    [case_reference |-> "case_number", client |-> "client_name",
     case_number |-> "case_number", tracker_number |-> "tracker_number",
     client_type |-> "client_type", client_name |-> "client_name", author |-> "author"]
    @@ Still({"issue_category", "vulnerability_indicator"})

CasesColumnsB ==
    [status |-> "status", created_at |-> "created_at"]
    @@ Still({"category", "issue_concern", "age", "approval", "referred_to",
              "latest_update", "actions"})

\* What the query of the export carries; the dates come from its dialog instead.
CasesExport == DOMAIN CasesGroups \cup {"age_min_days", "referral_state"}

----------------------------------------------------------------------------
(* Clients: resources/js/Pages/Client/Index.jsx *)

ClientsGroups ==
    [f \in {"client_type", "sex", "case_status", "vulnerability_indicator",
            "category_ids", "case_issue_id", "agcy_id", "account_status"} |->
        IF f = "account_status" THEN "one" ELSE "many"]

ClientsChips == DOMAIN ClientsGroups

ClientsColumnsA ==
    [name |-> "name", age |-> "age", sex |-> "sex"]
    @@ Still({"contact_number", "client_type", "case_number", "case_status",
              "vulnerability", "category", "issue_concern"})

ClientsColumnsB ==
    [created_at |-> "created_at"]
    @@ Still({"tracker_number", "email", "address", "previous_country", "date_of_arrival",
              "work_position", "nok_name", "nok_contact", "referred_to",
              "latest_update", "actions"})

ClientsExport == DOMAIN ClientsGroups

----------------------------------------------------------------------------
(* Referrals: resources/js/Pages/Referral/Index.jsx *)

ReferralsGroups == Many({"status", "agcy_id", "category_ids", "case_issue_id"})

\* The panel adds two age windows and two dates, each a single choice.
ReferralsScalars == One({"age_min_days", "age_max_days", "date_from", "date_to"})

ReferralsChips == DOMAIN ReferralsGroups \cup {"age_min_days", "age_max_days"}

ReferralsColumns ==
    [case_number |-> "case_number", client |-> "client", case_issue |-> "case_issue",
     agency |-> "agency", status |-> "status"]
    @@ Still({"client_contact", "case_summary", "required_services", "latest_update", "id"})

ReferralsExport == DOMAIN ReferralsGroups \cup {"age_min_days", "age_max_days"}

----------------------------------------------------------------------------
(* The administrator's users and agencies, the case trash, overdue referrals. *)

UsersPanel == One({"role", "client_type", "status", "agcy_id", "mfa_status", "show_deleted"})

UsersColumns ==
    [name |-> "here", email |-> "here", role |-> "here", created_at |-> "here"]
    @@ Still({"client", "agency", "position", "department", "contact_number",
              "email_verified", "mfa_status", "status", "actions"})

AgenciesFilters == One({"status", "is_default"})

AgenciesColumns ==
    [name |-> "here", short |-> "here", created_at |-> "here"]
    @@ Still({"is_default", "description", "contact_info", "referrals_count",
              "is_active", "actions"})

OverdueFilters == One({"status_filter"})

OverdueColumns ==
    [client |-> "client_name", status |-> "status", stale |-> "most_stale"]
    @@ Still({"case", "agency", "urgency", "last_activity", "case_manager", "actions"})

----------------------------------------------------------------------------
(* The audit log and the activity feed: timelines without columns.  The lists of *)
(* actions and modules of the audit log are props the page never asks for.       *)

\* A date range is set as one, by a preset or by Apply.  No category chosen means
\* the server's default ones.
AuditLogFilters ==
    One({"user_id", "date_from", "has_changes"}) @@ Many({"role"}) @@ [category |-> "default"]

AuditLogChips == DOMAIN AuditLogFilters

ActivityFilters == One({"date_from", "date_to", "module"})

----------------------------------------------------------------------------
(* The server's side of the tables: keys it sorts by. *)

CasesSortKeys == {"case_number", "tracker_number", "status", "created_at",
                  "client_type", "client_name", "author"}
ClientsSortKeys == {"created_at", "first_name", "last_name", "date_of_birth",
                    "sex", "name", "age"}
ReferralsSortKeys == {"case_number", "client", "case_issue", "agency", "status"}
OverdueSortKeys == {"most_stale", "status", "client_name"}
=============================================================================
