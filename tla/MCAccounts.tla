----------------------------- MODULE MCAccounts -----------------------------
(* Two accounts, three organizations and one API key for TLC. *)
EXTENDS Accounts

\* Slots are interchangeable.
TLC == INSTANCE TLC
Slots == TLC!Permutations(Slot)

\* Decisions about members and accounts and runs of the seeders, one at a time;
\* decisions about organizations, sign-ups, settings, keys and document types
\* overlap them and each other.
OneAtATime == {"invite", "member_status", "user_status", "superadmin",
               "run_seed", "seed_demo"}
=============================================================================
