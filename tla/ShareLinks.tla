----------------------------- MODULE ShareLinks -----------------------------
(***************************************************************************)
(* Links to shared files and groups: create_link and share_link_update of  *)
(* src/api/events.go, table link.                                          *)
(*                                                                         *)
(* That a link exists is decided by its long link alone, before the        *)
(* INSERT. An update reads the row, changes it and writes three columns    *)
(* back. Who opens a link asks for its file and owner, and gets the newest  *)
(* row. Time is in whole seconds, and the two times a handler reads the    *)
(* clock are one.                                                          *)
(***************************************************************************)
EXTENDS Integers, Sequences

CONSTANTS
    Owners, Targets,    \* usernames, and the cids of files and ids of groups
    Urls,               \* long links
    Passwords, NoPass,
    LinkTime,           \* the clock runs from 1 to LinkTime
    MaxLinks, Writers   \* bound on rows; updates and creations under way

VARIABLES
    links,              \* the rows of link by id
    writer,             \* requests between their reads and their write
    clock,
    promised,           \* history: the password and the expiry last answered
    mixed               \* history: links with overlapping requests since
linkVars == <<links, writer, clock, promised, mixed>>

Idle == [pc |-> "idle"]
Never == 0    \* expire_at of a link created without expire_time: the zero time
Times == 1 .. LinkTime
Rows == [username : Owners, cid : Targets, longLink : Urls,
         shortPass : Passwords \cup {NoPass}, updatedAt : Times, expireAt : Times \cup {Never}]

TypeOK ==
    /\ links \in Seq(Rows)
    /\ clock \in Times

Init ==
    /\ links = <<>>
    /\ writer = [w \in Writers |-> Idle]
    /\ clock = 1
    /\ promised = [k \in Owners \X Targets |-> [pass |-> NoPass, expireAt |-> Never]]
    /\ mixed = {}

\* expire_time and expire_at of a request, not in the past when given.
Later == {t \in Times : t >= clock}

KeyOf(row) == <<row.username, row.cid>>
Writing(k) == {w \in Writers : writer[w] # Idle /\ KeyOf(writer[w].row) = k}
-----------------------------------------------------------------------------
(* Reading.                                                                *)

\* GetLink by cid and username: LIMIT 1, ORDER BY id DESC.
GetLink(k) ==
    {links[i] : i \in {j \in DOMAIN links : /\ KeyOf(links[j]) = k
                                            /\ \A n \in j + 1 .. Len(links) : KeyOf(links[n]) # k}}

\* CheckShareLinkHandler, for the row of GetLink.
CheckShareLink(link, pass) ==
    CASE link.expireAt < clock -> "expired"
      [] link.expireAt >= clock /\ link.shortPass # NoPass /\ pass = NoPass -> "required"
      [] link.expireAt >= clock /\ link.shortPass = pass -> "success"
      [] OTHER -> "incorrect"

\* ShareNeedPassHandler.
NeedPass(link) == link.shortPass # NoPass

\* ShareLinkInfoHandler, in seconds.
ExpireDays(link) == link.expireAt - link.updatedAt
-----------------------------------------------------------------------------
(* Writing.                                                                *)

\* The answer of a request on the newest row of k: what the owner may rely on
\* when no other request on k was under way.
Promise(w, k, expireAt) ==
    /\ promised' = [promised EXCEPT ![k] =
         [pass |-> writer[w].row.shortPass, expireAt |-> expireAt]]
    /\ mixed' = IF Writing(k) = {w} THEN mixed ELSE mixed \cup {k}

\* GetShortLink, and the row to be inserted if there is none.
CreateShareLink(w, u, c, l, p) ==
    /\ writer[w] = Idle
    /\ \A i \in DOMAIN links : links[i].longLink # l
    /\ \E t \in Later \cup {Never} :
         writer' = [writer EXCEPT ![w] =
            [pc |-> "create",
             row |-> [username |-> u, cid |-> c, longLink |-> l, shortPass |-> p,
                      updatedAt |-> clock, expireAt |-> t]]]
    /\ UNCHANGED <<links, clock, promised, mixed>>

\* CreateLink.
CreateLink(w) ==
    /\ writer[w].pc = "create"
    /\ Len(links) < MaxLinks
    /\ links' = Append(links, writer[w].row)
    /\ Promise(w, KeyOf(writer[w].row), writer[w].row.expireAt)
    /\ writer' = [writer EXCEPT ![w] = Idle]
    /\ UNCHANGED clock

\* mutant: updated_at is set by every update
EditedAlwaysTouched(row, p, t) ==
    [row EXCEPT !.shortPass = p, !.updatedAt = clock, !.expireAt = IF t = Never THEN @ ELSE t]

\* The row as an update will write it. A new expiry takes the time of the
\* update along; without one both columns stay as they were read.
Edited(row, p, t) ==
    IF t = Never THEN [row EXCEPT !.shortPass = p]
    ELSE [row EXCEPT !.shortPass = p, !.expireAt = t, !.updatedAt = clock]

\* The owner of the row may update it; expire_at 0 leaves the expiry alone.
ShareLinkUpdate(w, i, u, p) ==
    /\ writer[w] = Idle
    /\ links[i].username = u
    /\ \E t \in Later \cup {Never} :
         writer' = [writer EXCEPT ![w] =
            [pc |-> "update", id |-> i, given |-> t, row |-> Edited(links[i], p, t)]]
    /\ UNCHANGED <<links, clock, promised, mixed>>

\* UPDATE ... SET short_pass, updated_at, expire_at WHERE id.
UpdateLinkPassAndExpiration(w) ==
    /\ writer[w].pc = "update"
    /\ links' = [links EXCEPT ![writer[w].id] =
                   [@ EXCEPT !.shortPass = writer[w].row.shortPass,
                             !.updatedAt = writer[w].row.updatedAt,
                             !.expireAt = writer[w].row.expireAt]]
    /\ LET k == KeyOf(writer[w].row)
       IN  IF \E n \in writer[w].id + 1 .. Len(links) : KeyOf(links[n]) = k
           THEN UNCHANGED <<promised, mixed>>    \* nobody gets this row any more
           ELSE Promise(w, k, IF writer[w].given = Never THEN promised[k].expireAt
                              ELSE writer[w].given)
    /\ writer' = [writer EXCEPT ![w] = Idle]
    /\ UNCHANGED clock
-----------------------------------------------------------------------------
Tick ==
    /\ clock < LinkTime
    /\ clock' = clock + 1
    /\ UNCHANGED <<links, writer, promised, mixed>>

Next ==
    \/ \E w \in Writers, u \in Owners, p \in Passwords \cup {NoPass} :
         \/ \E c \in Targets, l \in Urls : CreateShareLink(w, u, c, l, p)
         \/ \E i \in DOMAIN links : ShareLinkUpdate(w, i, u, p)
    \/ \E w \in Writers : CreateLink(w) \/ UpdateLinkPassAndExpiration(w)
    \/ Tick

Spec == Init /\ [][Next]_linkVars
-----------------------------------------------------------------------------
(* Properties.                                                             *)

\* The comment in ShareLinkUpdateHandler: updated_at changes only together with
\* the expiry, "so that expire_at - updated_at < 0" does not happen. Links that
\* never expire aside, it holds whatever updates overlap, because the two
\* columns are always written from one row.
ExpireDaysNotNegative ==
    \A i \in DOMAIN links :
        links[i].expireAt # Never => ExpireDays(links[i]) >= 0

\* Whoever opens a shared file needs the password that the owner was last
\* answered, until the expiry that was last given, unless requests on the link
\* have overlapped: an update without an expiry brings the one it has read back.
LinksAsPromised ==
    \A k \in Owners \X Targets : \A link \in GetLink(k) :
        k \notin mixed /\ Writing(k) = {} =>
            /\ CheckShareLink(link, promised[k].pass) =
                 IF promised[k].expireAt < clock THEN "expired" ELSE "success"
            /\ NeedPass(link) <=> promised[k].pass # NoPass

=============================================================================
