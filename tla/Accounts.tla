------------------------------ MODULE Accounts ------------------------------
(***************************************************************************)
(* How the owner of one e-mail address comes by an account: registration,  *)
(* also from the apply form, resending the activation link, following it,  *)
(* and the nightly purge of whoever never did.                             *)
(*                                                                         *)
(* Transactions are READ COMMITTED.  Recycling a pending account writes    *)
(* the password first, which holds the user's row until the commit, and    *)
(* reads the links to delete after that.  A resend writes no user, and so  *)
(* waits for nobody.  The ORM refuses an UPDATE that finds no row, and     *)
(* lets a DELETE that finds none pass.                                     *)
(***************************************************************************)
CONSTANTS
  Signups,   \* registrations, each with its own password and name
  Mails,     \* activation links, each minted once
  Callers,   \* requests handled at a time
  Nobody     \* neither a registration nor a link

ASSUME NobodyAssumption == Nobody \notin Signups \cup Mails

VARIABLES
  user,      \* the user row of the address
  password,  \* the registration that set hashed_password
  aged,      \* the user row is older than the purge's seven days
  person,    \* the candidate profile: an applicant's, or linked to the user
  mail,      \* the activationtoken row of each link
  life,      \* how old the link is: within the hour, before expires_at, after
  carries,   \* full_name of the link: the registration that gave it
  call,      \* what each request has read and is about to write
  \* For the properties:
  opened,    \* the link that activated the account
  crossing   \* what a request wrote after another one changed what it had read,
             \* and links that may have their name from one of those

accountRows == <<user, password, aged, person, mail, life, carries>>
accountVars == <<accountRows, call, opened, crossing>>

CallOps == {"idle", "create", "recycle", "recycling", "resend",
            "activate", "again", "guest", "purge", "lost"}

Calls == [op : CallOps,
          signup : Signups \cup {Nobody},
          mail : Mails \cup {Nobody},
          seen : SUBSET Mails,               \* links read
          person : {"untouched", "new", "known"},
          cut : BOOLEAN]                     \* another request changed what it read

NoCall == [op |-> "idle", signup |-> Nobody, mail |-> Nobody, seen |-> {},
           person |-> "untouched", cut |-> FALSE]

Unused == {m \in Mails : mail[m] = "unused"}
Minted == {m \in Mails : mail[m] \in {"unused", "used"}}

AccountTypeOK ==
  /\ user \in {"none", "pending", "active"}
  /\ password \in Signups \cup {Nobody}
  /\ aged \in BOOLEAN
  /\ person \in {"none", "lead", "linked"}
  /\ mail \in [Mails -> {"none", "unused", "used", "gone"}]
  /\ life \in [Mails -> {"hour", "valid", "expired"}]
  /\ carries \in [Mails -> Signups \cup {Nobody}]
  /\ call \in [Callers -> Calls]
  /\ opened \in Mails \cup {Nobody}
  /\ crossing \subseteq Signups \cup Mails
  /\ (user = "none" <=> password = Nobody)
  /\ (user = "active" <=> person = "linked")
  /\ (user = "none" => Minted = {})

AccountInit ==
  /\ user = "none"
  /\ password = Nobody
  /\ aged = FALSE
  /\ person = "none"
  /\ mail = [m \in Mails |-> "none"]
  /\ life = [m \in Mails |-> "hour"]
  /\ carries = [m \in Mails |-> Nobody]
  /\ call = [c \in Callers |-> NoCall]
  /\ opened = Nobody
  /\ crossing = {}

----------------------------------------------------------------------------
(* Helpers. *)

Begin(c, what) ==
  /\ call[c] = NoCall
  /\ call' = [call EXCEPT ![c] = what]
  /\ UNCHANGED <<accountRows, opened, crossing>>

\* Request c commits and ends.  It cuts the open ones that read what it changes.
EndsAndCuts(c, ops) ==
  call' = [d \in Callers |->
             IF d = c THEN NoCall
             ELSE IF call[d].op \in ops THEN [call[d] EXCEPT !.cut = TRUE]
             ELSE call[d]]

\* The request fails, or its process dies; its transaction is rolled back.
Fail(c) ==
  /\ call[c] # NoCall
  /\ call' = [call EXCEPT ![c] = NoCall]
  /\ UNCHANGED <<accountRows, opened, crossing>>

\* The row locks of a recycling request.
UserLocked == \E c \in Callers : call[c].op = "recycling"
MailLocked(ms) == \E c \in Callers : call[c].op = "recycling" /\ call[c].seen \cap ms # {}

\* The profile part of a request: an INSERT finds the address taken, or it is
\* an UPDATE that leaves user_id alone.
PersonWritable(c) == call[c].person = "new" => person = "none"
PersonWritten(c) ==
  person' = IF call[c].person = "new" THEN "lead" ELSE person

PersonRead == IF person = "none" THEN "new" ELSE "known"

\* The requests that have read the list of links they will replace.
Minting == {"recycling", "resend"}

\* History: the name may be that of a link which some request crossed.
Inherits(c) == call[c].op = "resend" /\ call[c].seen \cap crossing # {}

Mint(c, m, name) ==
  /\ mail[m] = "none"
  /\ mail' = [x \in Mails |-> IF x = m THEN "unused"
                              ELSE IF x \in call[c].seen THEN "gone" ELSE mail[x]]
  /\ carries' = [carries EXCEPT ![m] = name]
  /\ EndsAndCuts(c, Minting)
  /\ crossing' = crossing \cup (IF call[c].cut THEN {m, call[c].signup} \ {Nobody} ELSE {})
                          \cup (IF Inherits(c) THEN {m} ELSE {})

----------------------------------------------------------------------------
(* Registration. *)

\* register_candidate, by itself or at the end of an apply that claims the
\* address: the user is read.  A registration happens once.
RegisterRead(c, s, claim) ==
  /\ password # s /\ \A m \in Mails : carries[m] # s
  /\ \A d \in Callers : call[d].signup # s
  /\ user # "active"
  /\ Begin(c, [NoCall EXCEPT !.op = IF user = "none" THEN "create" ELSE "recycle",
                             !.signup = s,
                             !.person = IF claim THEN PersonRead ELSE "untouched"])

\* The address is unique: a second row is refused.
CreateWrite(c, m) ==
  /\ call[c].op = "create"
  /\ user = "none"
  /\ PersonWritable(c) /\ PersonWritten(c)
  /\ user' = "pending"
  /\ password' = call[c].signup
  /\ aged' = FALSE
  /\ Mint(c, m, call[c].signup)
  /\ UNCHANGED <<life, opened>>

\* Mutant: links sent before stay good.
RecycleLockKeepsLinks(c) ==
  /\ call[c].op = "recycle"
  /\ ~UserLocked
  /\ PersonWritable(c)
  /\ call' = [call EXCEPT ![c].op = "recycling"]
  /\ UNCHANGED <<accountRows, opened, crossing>>

\* The autoflush ahead of _delete_stale_tokens writes the password, by id and
\* whether or not the account is still pending, and waits for the row; the
\* links are read once it has it.
RecycleLock(c) ==
  /\ call[c].op = "recycle"
  /\ ~UserLocked
  /\ PersonWritable(c)
  /\ call' = [call EXCEPT ![c].op = "recycling", ![c].seen = Unused]
  /\ UNCHANGED <<accountRows, opened, crossing>>

RecycleWrite(c, m) ==
  /\ call[c].op = "recycling"
  /\ PersonWritable(c) /\ PersonWritten(c)
  /\ password' = call[c].signup
  /\ Mint(c, m, call[c].signup)
  /\ UNCHANGED <<user, aged, life, opened>>

\* resend_candidate_activation: at most one link an hour, by the rows that are
\* there.  The name is that of the latest unused link.
ResendRead(c) ==
  /\ user = "pending"
  /\ \A m \in Minted : life[m] # "hour"
  /\ Begin(c, [NoCall EXCEPT !.op = "resend", !.seen = Unused])

ResendWrite(c, m) ==
  /\ call[c].op = "resend"
  /\ ~MailLocked(call[c].seen)
  /\ IF call[c].seen = {} THEN Mint(c, m, Nobody)
     ELSE \E x \in call[c].seen : Mint(c, m, carries[x])
  /\ UNCHANGED <<user, password, aged, person, life, opened>>

----------------------------------------------------------------------------
(* Activation. *)

\* activate_user.  A user it read as active it does not write.
ActivateRead(c, m) ==
  /\ mail[m] = "unused"
  /\ life[m] # "expired"
  /\ Begin(c, [NoCall EXCEPT !.op = IF user = "pending" THEN "activate" ELSE "again",
                             !.mail = m, !.person = PersonRead])

\* The profile is created or linked, then the user, then the link: it must
\* still be there, and may be used already by the same link in another tab.
ActivateWrite(c) ==
  LET m == call[c].mail IN
  /\ call[c].op \in {"activate", "again"}
  /\ PersonWritable(c)
  /\ call[c].op = "activate" => ~UserLocked
  /\ ~MailLocked({m})
  /\ mail[m] # "gone"
  /\ person' = "linked"
  /\ user' = "active"
  /\ mail' = [mail EXCEPT ![m] = "used"]
  /\ opened' = IF user = "pending" THEN m ELSE opened
  /\ EndsAndCuts(c, {"recycle", "recycling", "resend"})
  /\ UNCHANGED <<password, aged, life, carries, crossing>>

----------------------------------------------------------------------------
(* A guest's apply: refused to the address of an active account. *)

GuestRead(c) ==
  /\ user # "active"
  /\ Begin(c, [NoCall EXCEPT !.op = "guest", !.person = PersonRead])

GuestWrite(c) ==
  /\ call[c].op = "guest"
  /\ PersonWritable(c) /\ PersonWritten(c)
  /\ EndsAndCuts(c, {})
  /\ UNCHANGED <<user, password, aged, mail, life, carries, opened, crossing>>

----------------------------------------------------------------------------
(* Time, and the purge of users who never activated. *)

LinkAges(m) ==
  /\ m \in Minted /\ life[m] # "expired"
  /\ life' = [life EXCEPT ![m] = IF @ = "hour" THEN "valid" ELSE "expired"]
  /\ UNCHANGED <<user, password, aged, person, mail, carries, call, opened, crossing>>

\* Seven days: the link of the registration has expired long before.
UserAges ==
  /\ user = "pending" /\ ~aged
  /\ \A m \in Minted : life[m] = "expired"
  /\ aged' = TRUE
  /\ UNCHANGED <<user, password, person, mail, life, carries, call, opened, crossing>>

PurgeUserRead(c) ==
  /\ user = "pending"
  /\ aged
  /\ \A m \in Unused : life[m] = "expired"
  /\ Begin(c, [NoCall EXCEPT !.op = "purge", !.seen = Minted])

PurgeUser(c) ==
  /\ user' = "none"
  /\ password' = Nobody
  /\ aged' = FALSE
  /\ person' = IF person = "linked" THEN "lead" ELSE person
  /\ mail' = [m \in Mails |-> IF m \in Minted THEN "gone" ELSE mail[m]]
  /\ opened' = Nobody
  /\ call' = [d \in Callers |->
                IF d = c THEN NoCall
                ELSE IF call[d].op \in {"idle", "create", "guest"} THEN call[d]
                ELSE [call[d] EXCEPT !.op = "lost"]]

\* Mutant: whoever activated since the read is deleted as well.
PurgeUserWriteUnchecked(c) ==
  /\ call[c].op = "purge"
  /\ ~UserLocked
  /\ PurgeUser(c)
  /\ UNCHANGED <<life, carries, crossing>>

\* The DELETE asks once more whether the user is inactive; the links go with
\* the user, and a request that holds either can only fail.
PurgeUserWrite(c) ==
  /\ call[c].op = "purge"
  /\ ~UserLocked
  /\ IF user = "pending"
     THEN PurgeUser(c) /\ UNCHANGED <<life, carries, crossing>>
     ELSE /\ call' = [call EXCEPT ![c] = NoCall]
          /\ UNCHANGED <<accountRows, opened, crossing>>

----------------------------------------------------------------------------
AccountNext ==
  \/ \E c \in Callers :
       \/ RecycleLock(c) \/ ResendRead(c) \/ ActivateWrite(c)
       \/ GuestRead(c) \/ GuestWrite(c)
       \/ PurgeUserRead(c) \/ PurgeUserWrite(c) \/ Fail(c)
       \/ \E s \in Signups, claim \in BOOLEAN : RegisterRead(c, s, claim)
       \/ \E m \in Mails : \/ CreateWrite(c, m) \/ RecycleWrite(c, m)
                           \/ ResendWrite(c, m) \/ ActivateRead(c, m)
  \/ \E m \in Mails : LinkAges(m)
  \/ UserAges

AccountSpec == AccountInit /\ [][AccountNext]_accountVars

----------------------------------------------------------------------------
(* Properties. *)

\* "Only one valid token at a time", "the old link in the candidate's inbox
\* stops working when they submit a new password" (_delete_stale_tokens): of
\* two links that work, one was minted by a request that crossed another.
OneLink == \A k, m \in Unused : k = m \/ {k, m} \cap crossing # {}

\* The account that a link opened has the password of the registration whose
\* name the link carries, unless a request crossed the activation or another
\* that minted a link.
OpenedByItsOwner ==
  user = "active" =>
    \/ carries[opened] = password
    \/ {opened, password} \cap crossing # {}

ActivationSound == OneLink /\ OpenedByItsOwner

\* Nobody is purged who activated, or who has a working link that the purge
\* could have read.
NobodyPurgedInError ==
  [][user # "none" /\ user' = "none" =>
       /\ user = "pending"
       /\ \E c \in Callers :
            /\ call[c].op = "purge" /\ call'[c] = NoCall
            /\ \A m \in Unused \cap call[c].seen : life[m] = "expired"]_accountVars

----------------------------------------------------------------------------
(* The inductive invariant. *)

\* What a request relies on still holds, or the request is cut.
CallsAgree ==
  \A c \in Callers :
    LET k == call[c] IN
    /\ k.op \notin {"idle", "create", "guest", "lost"} => user # "none"
    /\ k.op \in {"create", "recycle", "recycling"} => k.signup \in Signups
    /\ k.op \in {"activate", "again"} => k.mail \in Mails /\ mail[k.mail] # "none"
    /\ k.op \in {"recycle", "recycling", "resend"} /\ ~k.cut => user = "pending"
    /\ k.op \in Minting /\ ~k.cut => k.seen = Unused
    /\ k.op = "purge" =>
         \A m \in k.seen : mail[m] # "none" /\ (mail[m] = "unused" => life[m] = "expired")

\* A pending account can be activated, by a link that was not used yet, and an
\* active one was.
LinksAgree ==
  /\ user = "pending" => Unused # {}
  /\ (\E m \in Mails : mail[m] = "used") => user = "active"
  /\ user = "active" => opened \in Mails /\ mail[opened] # "none"

\* OpenedByItsOwner of each link that may yet open the account.
LinksOfOwner ==
  \A m \in Unused : carries[m] = password \/ {m, password} \cap crossing # {}

AccountIInv ==
  /\ AccountTypeOK /\ CallsAgree /\ LinksAgree /\ LinksOfOwner /\ ActivationSound
=============================================================================
