------------------------- MODULE WorkspaceLeasesProofs -------------------------
(***************************************************************************)
(* Proofs about WorkspaceLeases: its safety invariants and its refinement  *)
(* of WorkspaceOwnership, for any number of tickets, batches, controllers, *)
(* branches and worktrees, and any number of deaths.                       *)
(***************************************************************************)
EXTENDS WorkspaceLeases, TLAPS

\* The part of the inductive invariant about the files.
Files ==
  /\ ticket \in [Tickets -> Records]
  /\ manifest \in [Batches -> Manifests \cup {None}]
  /\ NoOrphanStamp /\ MemberInv /\ SpaceInv

-------------------------------------------------------------------------------
(* What the record helpers return *)

LEMMA NewTicketType == NewTicket \in Records /\ [NewTicket EXCEPT !.exists = FALSE] \in Records
  BY LeaseAssumption DEF NewTicket, Records

LEMMA HeldType ==
  ASSUME NEW r \in Records, r.exists, NEW c \in Runs, NEW w \in Workspaces, NEW ends \in BOOLEAN
  PROVE  /\ Held(r, c, w, ends) \in Records
         /\ Held(r, c, w, ends).exists /\ Held(r, c, w, ends).taken
         /\ Held(r, c, w, ends).space = w /\ Held(r, c, w, ends).run = c
         /\ Held(r, c, w, ends).batch = r.batch
  BY LeaseAssumption DEF Held, Records

LEMMA ReleasedType ==
  ASSUME NEW r \in Records
  PROVE  /\ Released(r) \in Records
         /\ Unclaimed(Released(r))
         /\ Released(r).exists = r.exists /\ Released(r).terminal = r.terminal
  BY DEF Released, Records, Unclaimed

LEMMA AfterImageType ==
  ASSUME NEW b \in Batches, NEW m \in Manifests, NEW t \in Tickets
  PROVE  /\ AfterImage(b, m, t) \in Records
         /\ AfterImage(b, m, t).batch = b
         /\ Stamped(AfterImage(b, m, t), b, m)
<1> DEFINE r == [NewTicket EXCEPT !.batch = b]
<1>1. r \in Records /\ r.exists /\ r.batch = b /\ ~r.taken /\ r.space = None /\ r.run = None
  BY LeaseAssumption DEF NewTicket, Records
<1>2. m.run \in Runs /\ m.space \in Workspaces /\ m.ends \in BOOLEAN
  BY DEF Manifests
<1>3. CASE t = m.take
  <2>1. AfterImage(b, m, t) = Held(r, m.run, m.space, m.ends)
    BY <1>3 DEF AfterImage
  <2> HIDE DEF r
  <2> QED
    BY <1>1, <1>2, <2>1, HeldType DEF Stamped
<1>4. CASE t # m.take
  <2>1. AfterImage(b, m, t) = r
    BY <1>4 DEF AfterImage
  <2> HIDE DEF r
  <2> QED
    BY <1>1, <2>1 DEF Stamped
<1> QED
  BY <1>3, <1>4

LEMMA ClashSymmetric ==
  ASSUME NEW v \in Workspaces, NEW w \in Workspaces, Clash(v, w)
  PROVE  Clash(w, v)
  BY DEF Clash

-------------------------------------------------------------------------------
(* Writes of one ticket file *)

\* A ticket of no batch: enough that what it claims is free.
LEMMA IsolatedWrite ==
  ASSUME Files, NEW x \in Tickets, NEW r \in Records,
         \A b \in Batches : ~Covers(b, x),
         r.batch = None,
         r.taken => /\ \A u \in Tickets \ {x} : Isolated(u) => ~Clash(r.space, ticket[u].space)
                    /\ \A b \in Batches : Declared(b) => ~Clash(r.space, manifest[b].space),
         ticket' = [ticket EXCEPT ![x] = r], manifest' = manifest
  PROVE  Files'
<1> USE DEF Files
<1>1. ticket' \in [Tickets -> Records] /\ ticket'[x] = r
  OBVIOUS
<1>2. \A u \in Tickets \ {x} : ticket'[u] = ticket[u]
  OBVIOUS
<1>3. NoOrphanStamp'
  BY <1>1, <1>2 DEF NoOrphanStamp, Covers, Declared
<1>4. MemberInv'
  <2> SUFFICES ASSUME NEW b \in Batches, NEW t \in Tickets, Covers(b, t)
               PROVE  /\ manifest[b].take \in manifest[b].members
                      /\ manifest[b].state = "pending" => ticket'[t] \in {NewTicket, AfterImage(b, manifest[b], t)}
                      /\ manifest[b].state = "active" => Stamped(ticket'[t], b, manifest[b])
                      /\ manifest[b].state = "releasing" =>
                           ticket'[t].terminal /\ (Stamped(ticket'[t], b, manifest[b]) \/ Cleared(ticket'[t]))
    BY DEF MemberInv, Covers, Declared
  <2>1. t # x
    OBVIOUS
  <2> QED
    BY <1>2, <2>1 DEF MemberInv
<1>5. SpaceInv'
  <2>1. \A u \in Tickets : Isolated(u) => ticket[u].space \in Workspaces
    BY DEF Isolated, Records
  <2>2. r.taken => r.space \in Workspaces
    BY DEF Records
  <2>3. ASSUME NEW t \in Tickets, NEW u \in Tickets, t # u, Isolated(t)', Isolated(u)'
        PROVE  ~Clash(ticket'[t].space, ticket'[u].space)
    <3>1. CASE t = x
      BY <1>1, <1>2, <2>3, <3>1 DEF Isolated
    <3>2. CASE u = x
      BY <1>1, <1>2, <2>1, <2>2, <2>3, <3>2, ClashSymmetric DEF Isolated
    <3>3. CASE t # x /\ u # x
      BY <1>2, <2>3, <3>3 DEF Isolated, SpaceInv
    <3> QED
      BY <3>1, <3>2, <3>3
  <2>4. ASSUME NEW t \in Tickets, NEW b \in Batches, Isolated(t)', Declared(b)
        PROVE  ~Clash(ticket'[t].space, manifest[b].space)
    BY <1>1, <1>2, <2>4 DEF Isolated, SpaceInv
  <2>5. \A a, b \in Batches : a # b /\ Declared(a) /\ Declared(b) => ~Clash(manifest[a].space, manifest[b].space)
    BY DEF SpaceInv
  <2> QED
    BY <2>3, <2>4, <2>5 DEF SpaceInv, Declared
<1> QED
  BY <1>1, <1>3, <1>4, <1>5

\* A member of a batch: enough that the file is one its manifest explains.
LEMMA MemberWrite ==
  ASSUME Files, NEW b \in Batches, NEW x \in Tickets, NEW r \in Records, Covers(b, x),
         r.batch \in {b, None}, r.batch = None => ~r.taken,
         manifest[b].state = "pending" => r \in {NewTicket, AfterImage(b, manifest[b], x)},
         manifest[b].state = "active" => Stamped(r, b, manifest[b]),
         manifest[b].state = "releasing" =>
           r.terminal /\ (Stamped(r, b, manifest[b]) \/ Cleared(r)),
         ticket' = [ticket EXCEPT ![x] = r], manifest' = manifest
  PROVE  Files'
<1> USE DEF Files
<1>1. ticket' \in [Tickets -> Records] /\ ticket'[x] = r
  OBVIOUS
<1>2. \A u \in Tickets \ {x} : ticket'[u] = ticket[u]
  OBVIOUS
<1>3. \A a \in Batches : Covers(a, x) => a = b
  BY DEF NoOrphanStamp
<1>4. NoOrphanStamp'
  <2>1. \A t \in Tickets : ticket'[t].batch # None => Covers(ticket'[t].batch, t)
    BY <1>1, <1>2 DEF NoOrphanStamp
  <2> QED
    BY <2>1 DEF NoOrphanStamp, Covers, Declared
<1>5. MemberInv'
  <2> SUFFICES ASSUME NEW a \in Batches, NEW t \in Tickets, Covers(a, t)
               PROVE  /\ manifest[a].take \in manifest[a].members
                      /\ manifest[a].state = "pending" => ticket'[t] \in {NewTicket, AfterImage(a, manifest[a], t)}
                      /\ manifest[a].state = "active" => Stamped(ticket'[t], a, manifest[a])
                      /\ manifest[a].state = "releasing" =>
                           ticket'[t].terminal /\ (Stamped(ticket'[t], a, manifest[a]) \/ Cleared(ticket'[t]))
    BY DEF MemberInv, Covers, Declared
  <2>1. CASE t = x
    BY <1>1, <1>3, <2>1 DEF MemberInv
  <2>2. CASE t # x
    BY <1>2, <2>2 DEF MemberInv
  <2> QED
    BY <2>1, <2>2
<1>6. SpaceInv'
  <2>1. \A t \in Tickets : Isolated(t)' => t # x /\ Isolated(t) /\ ticket'[t] = ticket[t]
    BY <1>1, <1>2, LeaseAssumption DEF Isolated
  <2> QED
    BY <2>1 DEF SpaceInv, Declared
<1> QED
  BY <1>1, <1>4, <1>5, <1>6

-------------------------------------------------------------------------------
(* Writes of one manifest *)

\* The state of a manifest moves on: enough that its members fit the new state.
LEMMA StateWrite ==
  ASSUME Files, NEW b \in Batches, NEW s \in {"active", "releasing"}, Declared(b),
         \A t \in manifest[b].members :
           /\ s = "active" => Stamped(ticket[t], b, manifest[b])
           /\ s = "releasing" =>
                ticket[t].terminal /\ (Stamped(ticket[t], b, manifest[b]) \/ Cleared(ticket[t])),
         manifest' = [manifest EXCEPT ![b] = [manifest[b] EXCEPT !.state = s]],
         ticket' = ticket
  PROVE  Files'
<1> DEFINE m == [manifest[b] EXCEPT !.state = s]
<1> USE DEF Files
<1>1. manifest[b] \in Manifests
  BY DEF Declared
<1>2. /\ m \in Manifests /\ m.state = s /\ m.members = manifest[b].members
      /\ m.take = manifest[b].take /\ m.space = manifest[b].space /\ m.run = manifest[b].run
  BY <1>1 DEF Manifests
<1>3. m # None
  BY <1>2, LeaseAssumption
<1>4. /\ manifest' \in [Batches -> Manifests \cup {None}] /\ manifest'[b] = m
      /\ \A a \in Batches \ {b} : manifest'[a] = manifest[a]
  BY <1>2
<1> HIDE DEF m
<1>5. \A a \in Batches : /\ Declared(a)' <=> Declared(a)
                         /\ Declared(a) => manifest'[a].space = manifest[a].space
                         /\ \A t \in Tickets : Covers(a, t)' <=> Covers(a, t)
  BY <1>2, <1>3, <1>4 DEF Declared, Covers
<1>6. NoOrphanStamp'
  <2>1. \A t \in Tickets : ticket[t].batch # None =>
          ticket[t].batch \in Batches
    BY DEF Records
  <2> QED
    BY <1>5, <2>1 DEF NoOrphanStamp
<1>7. MemberInv'
  <2> SUFFICES ASSUME NEW a \in Batches, NEW t \in Tickets, Covers(a, t)
               PROVE  /\ manifest'[a].take \in manifest'[a].members
                      /\ manifest'[a].state = "pending" => ticket[t] \in {NewTicket, AfterImage(a, manifest'[a], t)}
                      /\ manifest'[a].state = "active" => Stamped(ticket[t], a, manifest'[a])
                      /\ manifest'[a].state = "releasing" =>
                           ticket[t].terminal /\ (Stamped(ticket[t], a, manifest'[a]) \/ Cleared(ticket[t]))
    BY <1>5 DEF MemberInv
  <2>1. CASE a = b
    BY <1>2, <1>4, <2>1 DEF MemberInv, Covers, Stamped
  <2>2. CASE a # b
    BY <1>4, <2>2 DEF MemberInv
  <2> QED
    BY <2>1, <2>2
<1>8. SpaceInv'
  BY <1>5 DEF SpaceInv, Isolated
<1> QED
  BY <1>4, <1>6, <1>7, <1>8

\* The manifest of a cleared batch is removed.
LEMMA DropWrite ==
  ASSUME Files, NEW b \in Batches, InState(b, "releasing"), AllCleared(b),
         manifest' = [manifest EXCEPT ![b] = None], ticket' = ticket
  PROVE  Files'
<1> USE DEF Files
<1>1. /\ manifest' \in [Batches -> Manifests \cup {None}] /\ manifest'[b] = None
      /\ \A a \in Batches \ {b} : manifest'[a] = manifest[a]
  OBVIOUS
<1>2. \A t \in Tickets : ticket[t].batch # b
  BY LeaseAssumption DEF NoOrphanStamp, AllCleared, Cleared, Unclaimed, Covers
<1>3. NoOrphanStamp'
  <2>1. \A t \in Tickets : ticket[t].batch # None => ticket[t].batch \in Batches \ {b}
    BY <1>2 DEF Records
  <2> QED
    BY <1>1, <2>1 DEF NoOrphanStamp, Covers, Declared
<1>4. MemberInv'
  <2>1. \A a \in Batches, t \in Tickets : Covers(a, t)' => a # b /\ Covers(a, t) /\ manifest'[a] = manifest[a]
    BY <1>1 DEF Covers, Declared
  <2> SUFFICES ASSUME NEW a \in Batches, NEW t \in Tickets, a # b, Covers(a, t), manifest'[a] = manifest[a]
               PROVE  /\ manifest[a].take \in manifest[a].members
                      /\ manifest[a].state = "pending" => ticket[t] \in {NewTicket, AfterImage(a, manifest[a], t)}
                      /\ manifest[a].state = "active" => Stamped(ticket[t], a, manifest[a])
                      /\ manifest[a].state = "releasing" =>
                           ticket[t].terminal /\ (Stamped(ticket[t], a, manifest[a]) \/ Cleared(ticket[t]))
    BY <2>1 DEF MemberInv
  <2> QED
    BY DEF MemberInv
<1>5. SpaceInv'
  BY <1>1 DEF SpaceInv, Isolated, Declared
<1> QED
  BY <1>1, <1>3, <1>4, <1>5

\* A journal is written for tickets that nothing claims.
LEMMA DeclareWrite ==
  ASSUME Files, NEW b \in Batches, NEW m \in Manifests, ~Declared(b),
         m.state = "pending", m.take \in m.members,
         \A a \in Batches : Declared(a) => manifest[a].members \cap m.members = {},
         \A u \in Tickets : ticket[u].batch # b,
         \A u \in m.members : ticket[u].exists /\ ~ticket[u].terminal /\ Unclaimed(ticket[u]),
         SpaceFree(m.take, m.space, b),
         manifest' = [manifest EXCEPT ![b] = m], ticket' = ticket
  PROVE  Files'
<1> USE DEF Files
<1>1. /\ manifest' \in [Batches -> Manifests \cup {None}] /\ manifest'[b] = m
      /\ \A a \in Batches \ {b} : manifest'[a] = manifest[a]
  OBVIOUS
<1>2. m # None /\ m.members \subseteq Tickets /\ m.space \in Workspaces
  BY LeaseAssumption DEF Manifests
<1>3. \A u \in m.members : ticket[u] = NewTicket
  BY <1>2 DEF Records, NewTicket, Unclaimed
<1>4. \A t \in Tickets : /\ Covers(b, t)' <=> t \in m.members
                         /\ \A a \in Batches \ {b} : Covers(a, t)' <=> Covers(a, t)
  BY <1>1, <1>2 DEF Covers, Declared
<1>5. NoOrphanStamp'
  <2>1. \A t \in Tickets : ticket[t].batch # None => ticket[t].batch \in Batches \ {b}
    BY DEF Records
  <2>2. \A t \in Tickets, a \in Batches : t \in m.members => ~Covers(a, t)
    BY DEF Covers
  <2> QED
    BY <1>4, <2>1, <2>2 DEF NoOrphanStamp
<1>6. MemberInv'
  <2> SUFFICES ASSUME NEW a \in Batches, NEW t \in Tickets, Covers(a, t)'
               PROVE  /\ manifest'[a].take \in manifest'[a].members
                      /\ manifest'[a].state = "pending" => ticket[t] \in {NewTicket, AfterImage(a, manifest'[a], t)}
                      /\ manifest'[a].state = "active" => Stamped(ticket[t], a, manifest'[a])
                      /\ manifest'[a].state = "releasing" =>
                           ticket[t].terminal /\ (Stamped(ticket[t], a, manifest'[a]) \/ Cleared(ticket[t]))
    BY DEF MemberInv
  <2>1. CASE a = b
    BY <1>1, <1>3, <1>4, <2>1
  <2>2. CASE a # b
    BY <1>1, <1>4, <2>2 DEF MemberInv
  <2> QED
    BY <2>1, <2>2
<1>7. SpaceInv'
  <2>1. \A t \in Tickets : Isolated(t) => t # m.take /\ ticket[t].space \in Workspaces
    BY <1>3 DEF Isolated, NewTicket, Records
  <2>2. \A t \in Tickets : Isolated(t) => ~Clash(m.space, ticket[t].space)
    BY <2>1, LeaseAssumption DEF Isolated, SpaceFree
  <2>3. \A a \in Batches \ {b} : Declared(a) =>
          manifest[a].space \in Workspaces /\ ~Clash(m.space, manifest[a].space)
    BY DEF SpaceFree, Declared, Manifests
  <2>4. \A t \in Tickets : Isolated(t)' <=> Isolated(t)
    BY DEF Isolated
  <2>5. \A a \in Batches \ {b} : Declared(a)' <=> Declared(a)
    BY <1>1 DEF Declared
  <2>6. ASSUME NEW t \in Tickets, NEW a \in Batches, Isolated(t), Declared(a)'
        PROVE  ~Clash(ticket[t].space, manifest'[a].space)
    <3>1. CASE a = b
      BY <1>1, <1>2, <2>1, <2>2, <2>6, <3>1, ClashSymmetric
    <3>2. CASE a # b
      BY <1>1, <2>5, <2>6, <3>2 DEF SpaceInv
    <3> QED
      BY <3>1, <3>2
  <2>7. ASSUME NEW a \in Batches, NEW c \in Batches, a # c, Declared(a)', Declared(c)'
        PROVE  ~Clash(manifest'[a].space, manifest'[c].space)
    <3>1. CASE a = b
      BY <1>1, <2>3, <2>5, <2>7, <3>1
    <3>2. CASE c = b
      BY <1>1, <1>2, <2>3, <2>5, <2>7, <3>2, ClashSymmetric
    <3>3. CASE a # b /\ c # b
      BY <1>1, <2>5, <2>7, <3>3 DEF SpaceInv
    <3> QED
      BY <3>1, <3>2, <3>3
  <2>8. \A t, u \in Tickets : t # u /\ Isolated(t) /\ Isolated(u) => ~Clash(ticket[t].space, ticket[u].space)
    BY DEF SpaceInv
  <2> QED
    BY <2>4, <2>6, <2>7, <2>8 DEF SpaceInv
<1> QED
  BY <1>1, <1>5, <1>6, <1>7

-------------------------------------------------------------------------------
(* The invariant is inductive *)

\* The rest of it: the verb in the lock and the environment.
Rest ==
  /\ task \in Tasks \cup {None}
  /\ gateOpen \in BOOLEAN /\ policies \in Nat /\ crashes \in Nat
  /\ TaskInv

LEMMA IInvParts == IInv <=> Files /\ Rest
  BY DEF IInv, TypeOK, Files, Rest

\* A verb that frees the lock owes its successor nothing.
LEMMA DoneRest ==
  ASSUME Rest, Done, UNCHANGED env
  PROVE  Rest'
  BY DEF Rest, Done, env, TaskInv

LEMMA InitIInv == Init => IInv
<1> SUFFICES ASSUME Init PROVE IInv
  OBVIOUS
<1> USE LeaseAssumption DEF Init
<1>1. \A b \in Batches : ~Declared(b) /\ \A t \in Tickets : ~Covers(b, t)
  BY DEF Declared, Covers
<1>2. \A t \in Tickets : ticket[t].batch = None /\ ~Isolated(t)
  BY DEF NewTicket, Isolated
<1>3. TypeOK
  BY NewTicketType DEF TypeOK
<1>4. NoOrphanStamp
  BY <1>1, <1>2 DEF NoOrphanStamp
<1>5. MemberInv
  BY <1>1 DEF MemberInv
<1>6. SpaceInv
  BY <1>1, <1>2 DEF SpaceInv
<1>7. TaskInv
  BY DEF TaskInv
<1> QED
  BY <1>3, <1>4, <1>5, <1>6, <1>7 DEF IInv

\* Outside every roster, a ticket carries no stamp.
LEMMA Unstamped ==
  ASSUME Files, NEW t \in Tickets, \A b \in Batches : ~Covers(b, t)
  PROVE  ticket[t].batch = None
  BY DEF Files, NoOrphanStamp, Records

\* A claimed ticket outside every roster is free of everybody else's workspace.
LEMMA IsolatedFree ==
  ASSUME Files, NEW t \in Tickets, \A b \in Batches : ~Covers(b, t), ticket[t].taken
  PROVE  /\ \A u \in Tickets \ {t} : Isolated(u) => ~Clash(ticket[t].space, ticket[u].space)
         /\ \A b \in Batches : Declared(b) => ~Clash(ticket[t].space, manifest[b].space)
  BY Unstamped DEF Files, SpaceInv, Isolated

\* Isolated takes claim a workspace that is free.
LEMMA TakeAloneFiles ==
  ASSUME Files, NEW c \in Runs, NEW t \in Tickets, NEW w \in Workspaces, NEW force \in BOOLEAN,
         TakeAlone(c, t, w, force)
  PROVE  Files'
<1> USE DEF TakeAlone, WriteTicket
<1>1. PICK ends \in BOOLEAN : ticket' = [ticket EXCEPT ![t] = Held(ticket[t], c, w, ends)] /\ manifest' = manifest
  OBVIOUS
<1> DEFINE r == Held(ticket[t], c, w, ends)
<1>2. ticket[t] \in Records /\ ticket[t].exists /\ ticket[t].batch = None
  BY DEF Files
<1>3. r \in Records /\ r.taken /\ r.space = w /\ r.batch = None
  BY <1>2, HeldType
<1> HIDE DEF r
<1>4. \A b \in Batches : ~Covers(b, t)
  <2> SUFFICES ASSUME NEW b \in Batches, Covers(b, t) PROVE FALSE
    OBVIOUS
  <2>1. manifest[b].state = "active"
    BY DEF Frozen
  <2> QED
    BY <1>2, <2>1, LeaseAssumption DEF Files, MemberInv, Stamped
<1>5. SpaceFree(t, w, None)
  OBVIOUS
<1>6. /\ \A u \in Tickets \ {t} : Isolated(u) => ~Clash(r.space, ticket[u].space)
      /\ \A b \in Batches : Declared(b) => ~Clash(r.space, manifest[b].space)
  BY <1>3, <1>5, LeaseAssumption DEF SpaceFree, Isolated
<1> QED
  BY <1>1, <1>3, <1>4, <1>6, IsolatedWrite DEF r

LEMMA TakeMemberFiles ==
  ASSUME Files, NEW c \in Runs, NEW b \in Batches, NEW t \in Tickets, NEW force \in BOOLEAN,
         TakeMember(c, b, t, force)
  PROVE  Files'
<1> USE DEF TakeMember, WriteTicket
<1>1. PICK ends \in BOOLEAN :
        ticket' = [ticket EXCEPT ![t] = Held(ticket[t], c, manifest[b].space, ends)] /\ manifest' = manifest
  OBVIOUS
<1> DEFINE r == Held(ticket[t], c, manifest[b].space, ends)
<1>2. ticket[t] \in Records /\ ticket[t].exists /\ ticket[t].batch = b /\ manifest[b].space \in Workspaces
  BY DEF Files, InState, Declared, Manifests
<1>3. r \in Records /\ r.exists /\ r.taken /\ r.space = manifest[b].space /\ r.run = manifest[b].run /\ r.batch = b
  BY <1>2, HeldType
<1> HIDE DEF r
<1>4. manifest[b].state = "active" /\ Covers(b, t)
  BY DEF InState
<1>5. Stamped(r, b, manifest[b]) /\ r.batch # None
  BY <1>3, LeaseAssumption DEF Stamped
<1>6. /\ manifest[b].state = "pending" => r \in {NewTicket, AfterImage(b, manifest[b], t)}
      /\ manifest[b].state = "active" => Stamped(r, b, manifest[b])
      /\ manifest[b].state = "releasing" =>
           r.terminal /\ (Stamped(r, b, manifest[b]) \/ Cleared(r))
      /\ r.batch \in {b, None} /\ (r.batch = None => ~r.taken)
  BY <1>3, <1>4, <1>5
<1> QED
  BY <1>1, <1>3, <1>4, <1>6, MemberWrite DEF r

\* An update of a batch member leaves its claim as it is.
LEMMA UpdateFiles ==
  ASSUME Files, NEW t \in Tickets, NEW terminal \in BOOLEAN, Update(t, terminal)
  PROVE  Files'
<1> DEFINE r == [ticket[t] EXCEPT !.terminal = terminal]
<1>1. ticket' = [ticket EXCEPT ![t] = r] /\ manifest' = manifest
  BY DEF Update, WriteTicket
<1>2. ticket[t] \in Records /\ ticket[t].exists
  BY DEF Files, Update
<1>3. r \in Records
  BY <1>2 DEF Records
<1>4. /\ r.exists = ticket[t].exists /\ r.taken = ticket[t].taken /\ r.space = ticket[t].space
      /\ r.run = ticket[t].run /\ r.batch = ticket[t].batch
  BY <1>2 DEF Records
<1> HIDE DEF r
<1>5. ASSUME NEW b \in Batches, Covers(b, t) PROVE Files'
  <2>1. manifest[b].state = "active"
    BY <1>5 DEF Update, Frozen
  <2>2. Stamped(ticket[t], b, manifest[b])
    BY <1>5, <2>1 DEF Files, MemberInv
  <2>3. Stamped(r, b, manifest[b]) /\ r.batch = b /\ b # None
    BY <1>4, <2>2, LeaseAssumption DEF Stamped
  <2> QED
    BY <1>1, <1>3, <1>5, <2>1, <2>3, MemberWrite
<1>6. CASE \A b \in Batches : ~Covers(b, t)
  <2>1. r.batch = None
    BY <1>4, <1>6, Unstamped
  <2>2. r.taken => /\ \A u \in Tickets \ {t} : Isolated(u) => ~Clash(r.space, ticket[u].space)
                   /\ \A b \in Batches : Declared(b) => ~Clash(r.space, manifest[b].space)
    BY <1>4, <1>6, IsolatedFree
  <2> QED
    BY <1>1, <1>3, <1>6, <2>1, <2>2, IsolatedWrite
<1> QED
  BY <1>5, <1>6

LEMMA ReholdFiles ==
  ASSUME Files, NEW c \in Runs, NEW t \in Tickets, Rehold(c, t)
  PROVE  Files'
<1> DEFINE r == [ticket[t] EXCEPT !.run = c]
<1>1. ticket' = [ticket EXCEPT ![t] = r] /\ manifest' = manifest
  BY DEF Rehold, WriteTicket
<1>2. ticket[t] \in Records /\ ticket[t].taken /\ ticket[t].batch = None /\ \A b \in Batches : ~Covers(b, t)
  BY DEF Files, Rehold
<1>3. r \in Records /\ r.taken = ticket[t].taken /\ r.space = ticket[t].space /\ r.batch = None
  BY <1>2, LeaseAssumption DEF Records, Rehold
<1> HIDE DEF r
<1>4. /\ \A u \in Tickets \ {t} : Isolated(u) => ~Clash(r.space, ticket[u].space)
      /\ \A b \in Batches : Declared(b) => ~Clash(r.space, manifest[b].space)
  BY <1>2, <1>3, IsolatedFree
<1> QED
  BY <1>1, <1>2, <1>3, <1>4, IsolatedWrite

LEMMA ReleaseAloneFiles ==
  ASSUME Files, NEW t \in Tickets, ReleaseAlone(t)
  PROVE  Files'
<1>1. ticket[t] \in Records /\ \A b \in Batches : ~Covers(b, t)
  BY DEF Files, ReleaseAlone
<1>2. Released(ticket[t]) \in Records /\ Unclaimed(Released(ticket[t]))
  BY <1>1, ReleasedType
<1>3. ticket' = [ticket EXCEPT ![t] = Released(ticket[t])] /\ manifest' = manifest
  BY DEF ReleaseAlone, WriteTicket
<1> QED
  BY <1>1, <1>2, <1>3, IsolatedWrite DEF Unclaimed

LEMMA DeleteFiles ==
  ASSUME Files, NEW t \in Tickets, Delete(t)
  PROVE  Files'
<1> DEFINE r == [NewTicket EXCEPT !.exists = FALSE]
<1>1. r \in Records /\ ~r.taken /\ r.batch = None
  BY NewTicketType DEF NewTicket
<1>2. ticket' = [ticket EXCEPT ![t] = r] /\ manifest' = manifest /\ \A b \in Batches : ~Covers(b, t)
  BY DEF Delete, WriteTicket
<1> HIDE DEF r
<1> QED
  BY <1>1, <1>2, IsolatedWrite

LEMMA DeclareStep ==
  ASSUME Files, Rest, NEW c \in Runs, NEW b \in Batches, NEW members \in SUBSET Tickets,
         NEW ends \in BOOLEAN, NEW t \in members, NEW w \in Workspaces,
         Declare(c, b, t, members, w, ends)
  PROVE  Files' /\ Rest'
<1> DEFINE m == [state |-> "pending", members |-> members, take |-> t,
                 ends |-> ends, space |-> w, run |-> c]
<1> USE DEF Declare, WriteManifest
<1>1. m \in Manifests /\ m.state = "pending" /\ m.members = members /\ m.take = t /\ m.space = w
  BY DEF Manifests
<1>2. manifest' = [manifest EXCEPT ![b] = m] /\ ticket' = ticket /\ UNCHANGED env
  OBVIOUS
<1> HIDE DEF m
<1>3. Files'
  BY <1>1, <1>2, DeclareWrite
<1>4. task' = [verb |-> "stamp", batch |-> b, ticket |-> t]
  BY DEF GoOn
<1>5. task' \in Tasks
  BY <1>4 DEF Tasks
<1>6. manifest'[b] = m /\ m # None
  BY <1>1, <1>2, LeaseAssumption DEF Files
<1>7. TaskInv'
  BY <1>1, <1>4, <1>6 DEF TaskInv, InState, Declared
<1> QED
  BY <1>2, <1>3, <1>5, <1>7 DEF Rest, env

LEMMA ResumeStep ==
  ASSUME Files, Rest, NEW b \in Batches, Resume(b)
  PROVE  Files' /\ Rest'
<1> USE DEF Resume
<1>1. UNCHANGED <<ticket, manifest, env>> /\ InState(b, "pending")
  OBVIOUS
<1>2. task' = [verb |-> "stamp", batch |-> b, ticket |-> manifest[b].take]
  BY DEF GoOn
<1>3. manifest[b] \in Manifests
  BY <1>1 DEF Files, InState, Declared
<1>4. task' \in Tasks
  BY <1>2, <1>3 DEF Tasks, Manifests
<1>5. TaskInv'
  BY <1>1, <1>2 DEF TaskInv, InState, Declared
<1>6. Files'
  BY <1>1 DEF Files, NoOrphanStamp, MemberInv, SpaceInv, Covers, Declared, Isolated
<1> QED
  BY <1>1, <1>4, <1>5, <1>6 DEF Rest, env

LEMMA StampStep ==
  ASSUME Files, Rest, NEW b \in Batches, NEW t \in Tickets, Stamp(b, t)
  PROVE  Files' /\ Rest'
<1> DEFINE r == AfterImage(b, manifest[b], t)
<1> USE DEF Stamp, WriteTicket
<1>1. /\ ticket' = [ticket EXCEPT ![t] = r] /\ UNCHANGED <<manifest, task, env>>
      /\ InState(b, "pending") /\ t \in manifest[b].members
  OBVIOUS
<1>2. Covers(b, t) /\ manifest[b] \in Manifests /\ manifest[b].state = "pending"
  BY <1>1 DEF Files, InState, Declared, Covers
<1>3. r \in Records /\ r.batch = b
  BY <1>2, AfterImageType
<1> HIDE DEF r
<1>4. /\ r.batch \in {b, None} /\ (r.batch = None => ~r.taken)
      /\ manifest[b].state = "pending" => r \in {NewTicket, AfterImage(b, manifest[b], t)}
      /\ manifest[b].state = "active" => Stamped(r, b, manifest[b])
      /\ manifest[b].state = "releasing" => r.terminal /\ (Stamped(r, b, manifest[b]) \/ Cleared(r))
  BY <1>2, <1>3, LeaseAssumption DEF r
<1>5. Files'
  BY <1>1, <1>2, <1>3, <1>4, MemberWrite
<1>6. task = [verb |-> "stamp", batch |-> b, ticket |-> manifest[b].take]
  BY DEF Going
<1>7. TaskInv'
  BY <1>1, <1>6 DEF TaskInv, InState, Declared
<1> QED
  BY <1>1, <1>5, <1>7 DEF Rest, env

LEMMA ActivateStep ==
  ASSUME Files, Rest, NEW b \in Batches, Activate(b)
  PROVE  Files' /\ Rest'
<1> USE DEF Activate, WriteManifest
<1>1. InState(b, "pending") /\ manifest[b] \in Manifests
  BY DEF Files, InState, Declared
<1>2. \A t \in manifest[b].members : Stamped(ticket[t], b, manifest[b])
  BY <1>1, AfterImageType DEF Manifests
<1>3. Files'
  BY <1>1, <1>2, StateWrite DEF InState
<1> QED
  BY <1>3, DoneRest

LEMMA ReleaseMemberStep ==
  ASSUME Files, Rest, NEW b \in Batches, NEW t \in Tickets, ReleaseMember(b, t)
  PROVE  Files' /\ Rest'
<1> USE DEF ReleaseMember, WriteManifest
<1>1. /\ manifest' = [manifest EXCEPT ![b] = [manifest[b] EXCEPT !.state = "releasing"]]
      /\ ticket' = ticket /\ UNCHANGED env /\ Covers(b, t)
  OBVIOUS
<1>2. manifest[b] \in Manifests /\ Declared(b)
  BY <1>1 DEF Files, Covers, Declared
<1>3. \A u \in manifest[b].members :
        ticket[u].terminal /\ (Stamped(ticket[u], b, manifest[b]) \/ Cleared(ticket[u]))
  BY DEF Consistent
<1>4. Files'
  BY <1>1, <1>2, <1>3, StateWrite
<1>5. /\ manifest'[b] = [manifest[b] EXCEPT !.state = "releasing"]
      /\ manifest'[b] \in Manifests
  BY <1>1, <1>2 DEF Files, Manifests
<1>6. manifest'[b].state = "releasing" /\ manifest'[b].members = manifest[b].members
  BY <1>2, <1>5 DEF Manifests
<1>7. InState(b, "releasing")' /\ Covers(b, t)'
  BY <1>1, <1>5, <1>6, LeaseAssumption DEF InState, Declared, Covers
<1>8. CASE Cleared(ticket[t])
  <2>1. task' = [verb |-> "drop", batch |-> b, ticket |-> t] /\ AllCleared(b)
    BY <1>8 DEF GoOn
  <2>2. AllCleared(b)'
    BY <1>1, <1>6, <2>1 DEF AllCleared
  <2>3. TaskInv'
    BY <1>7, <2>1, <2>2 DEF TaskInv
  <2> QED
    BY <1>1, <1>4, <2>1, <2>3 DEF Rest, env, Tasks
<1>9. CASE ~Cleared(ticket[t])
  <2>1. task' = [verb |-> "clear", batch |-> b, ticket |-> t]
    BY <1>9 DEF GoOn
  <2>2. TaskInv'
    BY <1>7, <2>1 DEF TaskInv
  <2> QED
    BY <1>1, <1>4, <2>1, <2>2 DEF Rest, env, Tasks
<1> QED
  BY <1>8, <1>9

LEMMA ClearMemberStep ==
  ASSUME Files, Rest, NEW b \in Batches, NEW t \in Tickets, ClearMember(b, t)
  PROVE  Files' /\ Rest'
<1> DEFINE r == Released(ticket[t])
<1> USE DEF ClearMember, WriteTicket
<1>1. ticket' = [ticket EXCEPT ![t] = r] /\ UNCHANGED <<manifest, env>>
  OBVIOUS
<1>2. task = [verb |-> "clear", batch |-> b, ticket |-> t] /\ task # None
  BY LeaseAssumption DEF Going, Tasks
<1>3. InState(b, "releasing") /\ Covers(b, t)
  BY <1>2 DEF Rest, TaskInv
<1>4. ticket[t] \in Records /\ ticket[t].terminal /\ ticket[t].exists
  BY <1>3 DEF Files, MemberInv, InState, Stamped, Cleared
<1>5. r \in Records /\ Cleared(r) /\ r.batch = None /\ ~r.taken /\ r.terminal
  BY <1>4, ReleasedType DEF Cleared, Unclaimed
<1> HIDE DEF r
<1>6. manifest[b].state = "releasing"
  BY <1>3 DEF InState
<1>7. Files'
  BY <1>1, <1>3, <1>5, <1>6, MemberWrite
<1>8. ticket'[t] = r /\ \A u \in Tickets \ {t} : ticket'[u] = ticket[u]
  BY <1>1 DEF Files
<1>9. CASE \A u \in manifest[b].members \ {t} : Cleared(ticket[u])
  <2>1. task' = [verb |-> "drop", batch |-> b, ticket |-> t]
    BY <1>9 DEF GoOn
  <2>2. manifest[b].members \subseteq Tickets
    BY <1>3 DEF Files, Covers, Declared, Manifests
  <2>3. AllCleared(b)'
    BY <1>1, <1>5, <1>8, <1>9, <2>2 DEF AllCleared
  <2>4. InState(b, "releasing")'
    BY <1>1, <1>3 DEF InState, Declared
  <2>5. TaskInv'
    BY <2>1, <2>3, <2>4 DEF TaskInv
  <2> QED
    BY <1>1, <1>7, <2>1, <2>5 DEF Rest, env, Tasks
<1>10. CASE ~\A u \in manifest[b].members \ {t} : Cleared(ticket[u])
  BY <1>1, <1>7, <1>10, DoneRest
<1> QED
  BY <1>9, <1>10

LEMMA DropManifestStep ==
  ASSUME Files, Rest, NEW b \in Batches, NEW t \in Tickets, DropManifest(b, t)
  PROVE  Files' /\ Rest'
<1> USE DEF DropManifest, WriteManifest
<1>1. task = [verb |-> "drop", batch |-> b, ticket |-> t] /\ task # None
  BY LeaseAssumption DEF Going, Tasks
<1>2. InState(b, "releasing") /\ AllCleared(b)
  BY <1>1 DEF Rest, TaskInv
<1>3. Files'
  BY <1>2, DropWrite
<1> QED
  BY <1>3, DoneRest

LEMMA NextIInv == IInv /\ [Next]_vars => IInv'
<1> SUFFICES ASSUME Files, Rest, [Next]_vars PROVE Files' /\ Rest'
  BY IInvParts DEF IInv, TypeOK, Files, Rest
<1>1. ASSUME NEW b \in Batches, NEW t \in Tickets,
             Stamp(b, t) \/ Activate(b) \/ ClearMember(b, t) \/ DropManifest(b, t)
      PROVE  Files' /\ Rest'
  BY <1>1, StampStep, ActivateStep, ClearMemberStep, DropManifestStep
<1>2. ASSUME NEW c \in Runs, NEW t \in Tickets, NEW force \in BOOLEAN, NEW w \in Workspaces,
             TakeAlone(c, t, w, force)
      PROVE  Files' /\ Rest'
  BY <1>2, TakeAloneFiles, DoneRest DEF TakeAlone, WriteTicket
<1>3. ASSUME NEW c \in Runs, NEW t \in Tickets, NEW force \in BOOLEAN, NEW b \in Batches,
             TakeMember(c, b, t, force)
      PROVE  Files' /\ Rest'
  BY <1>3, TakeMemberFiles, DoneRest DEF TakeMember, WriteTicket
<1>4. ASSUME NEW c \in Runs, NEW b \in Batches, NEW members \in SUBSET Tickets, NEW ends \in BOOLEAN,
             NEW t \in members, NEW w \in Workspaces, Declare(c, b, t, members, w, ends)
      PROVE  Files' /\ Rest'
  BY <1>4, DeclareStep
<1>5. ASSUME NEW b \in Batches, Resume(b) PROVE Files' /\ Rest'
  BY <1>5, ResumeStep
<1>6. ASSUME NEW t \in Tickets, ReleaseAlone(t) PROVE Files' /\ Rest'
  BY <1>6, ReleaseAloneFiles, DoneRest DEF ReleaseAlone, WriteTicket
<1>7. ASSUME NEW t \in Tickets, Delete(t) PROVE Files' /\ Rest'
  BY <1>7, DeleteFiles, DoneRest DEF Delete, WriteTicket
<1>8. ASSUME NEW t \in Tickets, NEW b \in Batches, ReleaseMember(b, t) PROVE Files' /\ Rest'
  BY <1>8, ReleaseMemberStep
<1>9. ASSUME NEW t \in Tickets, NEW c \in Runs, Rehold(c, t) PROVE Files' /\ Rest'
  BY <1>9, ReholdFiles, DoneRest DEF Rehold, WriteTicket
<1>10. ASSUME NEW t \in Tickets, NEW terminal \in BOOLEAN, Update(t, terminal) PROVE Files' /\ Rest'
  BY <1>10, UpdateFiles, DoneRest DEF Update, WriteTicket
<1>11. ASSUME UNCHANGED <<ticket, manifest>> PROVE Files'
  BY <1>11 DEF Files, NoOrphanStamp, MemberInv, SpaceInv, Covers, Declared, Isolated
<1>12. CASE ChangePolicy
  <2>1. gateOpen' \in BOOLEAN
    BY <1>12 DEF ChangePolicy
  <2>2. policies' \in Nat /\ crashes' \in Nat
    BY <1>12 DEF ChangePolicy, Rest
  <2>3. task' = None
    BY <1>12 DEF ChangePolicy, InLock
  <2> QED
    BY <1>11, <1>12, <2>1, <2>2, <2>3 DEF ChangePolicy, Rest, TaskInv
<1>13. CASE Crash
  <2>1. policies' \in Nat /\ crashes' \in Nat /\ gateOpen' \in BOOLEAN
    BY <1>13 DEF Crash, Rest
  <2> QED
    BY <1>11, <1>13, <2>1 DEF Crash, Rest, TaskInv
<1>14. CASE UNCHANGED vars
  <2>1. Rest'
    BY <1>14 DEF vars, Rest, TaskInv, InState, AllCleared, Covers, Declared
  <2> QED
    BY <1>11, <1>14, <2>1 DEF vars
<1> QED
  BY <1>1, <1>2, <1>3, <1>4, <1>5, <1>6, <1>7, <1>8, <1>9, <1>10, <1>12, <1>13, <1>14
  DEF Next, Continue, Take, DeclareBatch

-------------------------------------------------------------------------------
(* The theorems *)

\* Spec => []TypeOK: in particular a ticket file records a workspace and a
\* controller exactly while it is taken.
THEOREM TypeCorrect == Spec => []TypeOK
<1>1. IInv => TypeOK
  BY DEF IInv
<1> QED
  BY InitIInv, NextIInv, <1>1, PTL DEF Spec

\* No batch stamp is left without a manifest that explains it.
THEOREM StampsExplained == Spec => []NoOrphanStamp
<1>1. IInv => NoOrphanStamp
  BY DEF IInv
<1> QED
  BY InitIInv, NextIInv, <1>1, PTL DEF Spec

\* Two tickets taken in workspaces that clash are members of one declared batch.
THEOREM OneWriter == Spec => []OneWriterPerWorkspace
<1>1. IInv => OneWriterPerWorkspace
  <2> SUFFICES ASSUME IInv, NEW t \in Tickets, NEW u \in Tickets, t # u,
                      ticket[t].taken, ticket[u].taken, Clash(ticket[t].space, ticket[u].space)
               PROVE  /\ ticket[t].batch = ticket[u].batch
                      /\ \E b \in Batches : b = ticket[t].batch /\ Covers(b, t) /\ Covers(b, u)
    BY DEF OneWriterPerWorkspace
  <2> USE DEF IInv
  <2>1. ticket \in [Tickets -> Records] /\ manifest \in [Batches -> Manifests \cup {None}]
    BY DEF TypeOK
  <2>2. ASSUME NEW x \in Tickets, ticket[x].taken, ticket[x].batch # None
        PROVE  /\ ticket[x].batch \in Batches /\ Covers(ticket[x].batch, x)
               /\ ticket[x].space = manifest[ticket[x].batch].space
    <3>1. ticket[x].batch \in Batches /\ Covers(ticket[x].batch, x)
      BY <2>1, <2>2 DEF NoOrphanStamp, Records
    <3>2. manifest[ticket[x].batch] \in Manifests
      BY <2>1, <3>1 DEF Covers, Declared
    <3>3. manifest[ticket[x].batch].state \in {"pending", "active", "releasing"}
      BY <3>2 DEF Manifests
    <3>4. ~Cleared(ticket[x]) /\ ticket[x] # NewTicket
      BY <2>2 DEF Cleared, Unclaimed, NewTicket
    <3>5. Stamped(ticket[x], ticket[x].batch, manifest[ticket[x].batch])
      BY <3>1, <3>2, <3>3, <3>4, AfterImageType DEF MemberInv
    <3> QED
      BY <2>2, <3>1, <3>5 DEF Stamped
  <2>3. ticket[t].space \in Workspaces /\ ticket[u].space \in Workspaces
    BY <2>1 DEF Records
  <2>4. ticket[t].batch = None => ticket[u].batch # None
    BY DEF SpaceInv, Isolated
  <2>5. CASE ticket[t].batch = None
    BY <2>2, <2>4, <2>5 DEF SpaceInv, Isolated, Covers
  <2>6. CASE ticket[u].batch = None
    BY <2>2, <2>3, <2>4, <2>6, ClashSymmetric DEF SpaceInv, Isolated, Covers
  <2>7. CASE ticket[t].batch # None /\ ticket[u].batch # None
    BY <2>2, <2>7 DEF SpaceInv, Covers
  <2> QED
    BY <2>5, <2>6, <2>7
<1> QED
  BY InitIInv, NextIInv, <1>1, PTL DEF Spec

\* A batch past its declaration never becomes BATCH_INCONSISTENT.
THEOREM BatchesConsistent == Spec => []StaysConsistent
<1>1. IInv => StaysConsistent
  <2> SUFFICES ASSUME IInv, NEW b \in Batches, Declared(b), ~InState(b, "pending")
               PROVE  Consistent(b)
    BY DEF StaysConsistent
  <2>1. manifest[b] \in Manifests
    BY DEF IInv, TypeOK, Declared
  <2>2. manifest[b].state \in {"active", "releasing"} /\ manifest[b].members \subseteq Tickets
    BY <2>1 DEF Manifests, InState
  <2>3. \A t \in manifest[b].members :
          Stamped(ticket[t], b, manifest[b]) \/ (manifest[b].state = "releasing" /\ Cleared(ticket[t]))
    BY <2>2 DEF IInv, MemberInv, Covers
  <2>4. \A t \in Tickets : ticket[t].batch = b => t \in manifest[b].members
    BY LeaseAssumption DEF IInv, NoOrphanStamp, Covers
  <2> QED
    BY <2>3, <2>4 DEF Consistent
<1> QED
  BY InitIInv, NextIInv, <1>1, PTL DEF Spec

\* The members of a pending declaration hold its before or its after image, so the
\* exact declaring take can always be repeated.
THEOREM DeclarationsRollForward == Spec => []RollsForward
<1>1. IInv => RollsForward
  <2> SUFFICES ASSUME IInv, NEW b \in Batches, InState(b, "pending"), NEW t \in manifest[b].members
               PROVE  ticket[t] \in {NewTicket, AfterImage(b, manifest[b], t)}
    BY DEF RollsForward
  <2>1. manifest[b] \in Manifests /\ Covers(b, t)
    BY DEF IInv, TypeOK, InState, Declared, Covers
  <2> QED
    BY <2>1 DEF IInv, MemberInv, InState, Manifests
<1> QED
  BY InitIInv, NextIInv, <1>1, PTL DEF Spec

\* Which verbs touch a manifest, and how.
LEMMA ManifestSteps ==
  ASSUME IInv, Next
  PROVE  \/ manifest' = manifest
         \/ \E b \in Batches, m \in Manifests : ~Declared(b) /\ manifest' = [manifest EXCEPT ![b] = m]
         \/ \E b \in Batches : /\ InState(b, "pending")
                               /\ manifest' = [manifest EXCEPT ![b] = [manifest[b] EXCEPT !.state = "active"]]
         \/ \E b \in Batches : /\ Declared(b) /\ manifest[b].state \in {"active", "releasing"}
                               /\ manifest' = [manifest EXCEPT ![b] = [manifest[b] EXCEPT !.state = "releasing"]]
         \/ \E b \in Batches : /\ InState(b, "releasing") /\ AllCleared(b)
                               /\ manifest' = [manifest EXCEPT ![b] = None]
<1>1. CASE \E b \in Batches, t \in Tickets : Stamp(b, t) \/ ClearMember(b, t)
  BY <1>1 DEF Stamp, ClearMember, WriteTicket
<1>2. CASE \E b \in Batches, t \in Tickets : Activate(b)
  BY <1>2 DEF Activate, WriteManifest
<1>3. ASSUME NEW b \in Batches, NEW t \in Tickets, DropManifest(b, t)
      PROVE  /\ InState(b, "releasing") /\ AllCleared(b)
             /\ manifest' = [manifest EXCEPT ![b] = None]
  <2>1. task = [verb |-> "drop", batch |-> b, ticket |-> t] /\ task # None
    BY <1>3, LeaseAssumption DEF DropManifest, Going, Tasks
  <2> QED
    BY <1>3, <2>1 DEF DropManifest, WriteManifest, IInv, TaskInv
<1>4. CASE Take
  BY <1>4 DEF Take, TakeAlone, TakeMember, WriteTicket
<1>5. ASSUME NEW c \in Runs, NEW b \in Batches, NEW members \in SUBSET Tickets, NEW ends \in BOOLEAN,
             NEW t \in members, NEW w \in Workspaces, Declare(c, b, t, members, w, ends)
      PROVE  \E m \in Manifests : ~Declared(b) /\ manifest' = [manifest EXCEPT ![b] = m]
  <2>1. [state |-> "pending", members |-> members, take |-> t, ends |-> ends, space |-> w, run |-> c]
          \in Manifests
    BY DEF Manifests
  <2> QED
    BY <1>5, <2>1 DEF Declare, WriteManifest
<1>6. CASE \E b \in Batches : Resume(b)
  BY <1>6 DEF Resume
<1>7. CASE \E b \in Batches, t \in Tickets : ReleaseMember(b, t)
  BY <1>7 DEF ReleaseMember, WriteManifest, Covers
<1>8. CASE \E t \in Tickets : \/ ReleaseAlone(t) \/ Delete(t)
                              \/ \E c \in Runs : Rehold(c, t)
                              \/ \E terminal \in BOOLEAN : Update(t, terminal)
  BY <1>8 DEF ReleaseAlone, Delete, Rehold, Update, WriteTicket
<1>9. CASE ChangePolicy \/ Crash
  BY <1>9 DEF ChangePolicy, Crash
<1> QED
  BY <1>1, <1>2, <1>3, <1>4, <1>5, <1>6, <1>7, <1>8, <1>9 DEF Next, Continue, DeclareBatch

\* A manifest is frozen but for its state, which goes pending, active, releasing;
\* it is removed only when its whole roster is cleared.
THEOREM ManifestsLive == Spec => ManifestLifecycle
<1> DEFINE Lives ==
      \A b \in Batches : Declared(b) /\ manifest'[b] # manifest[b] =>
        \/ /\ manifest'[b] = None
           /\ InState(b, "releasing") /\ AllCleared(b)
        \/ \E s \in {"active", "releasing"} :
             /\ manifest'[b] = [manifest[b] EXCEPT !.state = s]
             /\ <<manifest[b].state, s>> \in {<<"pending", "active">>, <<"active", "releasing">>}
<1>1. IInv /\ [Next]_vars => [Lives]_vars
  <2> SUFFICES ASSUME IInv, Next, NEW b \in Batches, Declared(b), manifest'[b] # manifest[b]
               PROVE  \/ /\ manifest'[b] = None
                         /\ InState(b, "releasing") /\ AllCleared(b)
                      \/ \E s \in {"active", "releasing"} :
                           /\ manifest'[b] = [manifest[b] EXCEPT !.state = s]
                           /\ <<manifest[b].state, s>> \in {<<"pending", "active">>, <<"active", "releasing">>}
    OBVIOUS
  <2>1. manifest \in [Batches -> Manifests \cup {None}] /\ manifest[b] \in Manifests
    BY DEF IInv, TypeOK, Declared
  <2>2. CASE \E a \in Batches, m \in Manifests : ~Declared(a) /\ manifest' = [manifest EXCEPT ![a] = m]
    BY <2>1, <2>2
  <2>3. CASE \E a \in Batches : /\ InState(a, "pending")
                                /\ manifest' = [manifest EXCEPT ![a] = [manifest[a] EXCEPT !.state = "active"]]
    BY <2>1, <2>3 DEF InState
  <2>4. CASE \E a \in Batches : /\ Declared(a) /\ manifest[a].state \in {"active", "releasing"}
                                /\ manifest' = [manifest EXCEPT ![a] = [manifest[a] EXCEPT !.state = "releasing"]]
    <3>1. /\ manifest'[b] = [manifest[b] EXCEPT !.state = "releasing"]
          /\ manifest[b].state \in {"active", "releasing"}
      BY <2>1, <2>4
    <3>2. manifest[b].state # "releasing"
      BY <2>1, <3>1 DEF Manifests
    <3> QED
      BY <3>1, <3>2
  <2>5. CASE \E a \in Batches : /\ InState(a, "releasing") /\ AllCleared(a)
                                /\ manifest' = [manifest EXCEPT ![a] = None]
    BY <2>1, <2>5
  <2> QED
    BY <2>2, <2>3, <2>4, <2>5, ManifestSteps
<1> QED
  BY InitIInv, NextIInv, <1>1, PTL DEF Spec, ManifestLifecycle

-------------------------------------------------------------------------------
(* The verbs implement WorkspaceOwnership *)

Owns == [x \in Tickets \cup Batches |-> Owner(x)]

\* What one write does to the ownership map.
LEMMA OwnsOneTicket ==
  ASSUME NEW t \in Tickets, manifest' = manifest,
         \A u \in Tickets \ {t} : ticket'[u] = ticket[u]
  PROVE  Owns' = [Owns EXCEPT ![t] = IF ticket'[t].batch = None THEN ticket'[t].space ELSE None]
<1>1. t \notin Batches
  BY LeaseAssumption
<1>2. \A x \in Batches : Owner(x)' = Owner(x)
  BY DEF Owner, Declared
<1>3. \A u \in Tickets \ {t} : Owner(u)' = Owner(u)
  BY LeaseAssumption DEF Owner
<1>4. Owner(t)' = IF ticket'[t].batch = None THEN ticket'[t].space ELSE None
  BY <1>1 DEF Owner
<1> QED
  BY <1>2, <1>3, <1>4 DEF Owns

LEMMA OwnsOneBatch ==
  ASSUME NEW b \in Batches, ticket' = ticket,
         \A a \in Batches \ {b} : manifest'[a] = manifest[a]
  PROVE  Owns' = [Owns EXCEPT ![b] = IF manifest'[b] # None THEN manifest'[b].space ELSE None]
<1>1. \A x \in Tickets : Owner(x)' = Owner(x)
  BY LeaseAssumption DEF Owner
<1>2. \A a \in Batches \ {b} : Owner(a)' = Owner(a)
  BY DEF Owner, Declared
<1>3. Owner(b)' = IF manifest'[b] # None THEN manifest'[b].space ELSE None
  BY DEF Owner, Declared
<1> QED
  BY <1>1, <1>2, <1>3 DEF Owns

\* A workspace that assertWorkspaceFree finds free is free for the claimant.
LEMMA FreeForTicket ==
  ASSUME IInv, NEW t \in Tickets, NEW w \in Workspaces, SpaceFree(t, w, None)
  PROVE  \A y \in (Tickets \cup Batches) \ {t} : Owns[y] # None => ~Clash(w, Owns[y])
<1> SUFFICES ASSUME NEW y \in (Tickets \cup Batches) \ {t}, Owner(y) # None
             PROVE  ~Clash(w, Owner(y))
  BY DEF Owns
<1>1. CASE y \in Batches
  BY <1>1, LeaseAssumption DEF Owner, SpaceFree
<1>2. CASE y \in Tickets
  <2>1. Owner(y) = ticket[y].space /\ ticket[y].space # None
    BY <1>2, LeaseAssumption DEF Owner
  <2>2. ticket[y].taken
    BY <1>2, <2>1 DEF IInv, TypeOK, Records
  <2> QED
    BY <1>2, <2>1, <2>2 DEF SpaceFree
<1> QED
  BY <1>1, <1>2

LEMMA FreeForBatch ==
  ASSUME IInv, NEW b \in Batches, NEW t \in Tickets, NEW w \in Workspaces, SpaceFree(t, w, b),
         Unclaimed(ticket[t]), \A u \in Tickets : ticket[u].batch # b
  PROVE  \A y \in (Tickets \cup Batches) \ {b} : Owns[y] # None => ~Clash(w, Owns[y])
<1> SUFFICES ASSUME NEW y \in (Tickets \cup Batches) \ {b}, Owner(y) # None
             PROVE  ~Clash(w, Owner(y))
  BY DEF Owns
<1>1. CASE y \in Batches
  BY <1>1 DEF Owner, SpaceFree
<1>2. CASE y \in Tickets
  <2>1. Owner(y) = ticket[y].space /\ ticket[y].space # None
    BY <1>2, LeaseAssumption DEF Owner
  <2>2. ticket[y].taken /\ y # t
    BY <1>2, <2>1 DEF IInv, TypeOK, Records, Unclaimed
  <2> QED
    BY <1>2, <2>1, <2>2 DEF SpaceFree
<1> QED
  BY <1>1, <1>2

\* A write of a member's ticket is no change of ownership.
MembersOwnNothing == \A b \in Batches, t \in Tickets : Covers(b, t) => Owner(t) = None

LEMMA MemberOwnsNothing == IInv => MembersOwnNothing
<1> SUFFICES ASSUME IInv, NEW b \in Batches, NEW t \in Tickets, Covers(b, t)
             PROVE  Owner(t) = None
  BY DEF MembersOwnNothing
<1>1. manifest[b] \in Manifests /\ t \notin Batches
  BY LeaseAssumption DEF IInv, TypeOK, Covers, Declared
<1>2. manifest[b].state \in {"pending", "active", "releasing"}
  BY <1>1 DEF Manifests
<1>3. CASE ticket[t] = NewTicket \/ Cleared(ticket[t])
  BY <1>1, <1>3 DEF Owner, NewTicket, Cleared, Unclaimed
<1>4. CASE Stamped(ticket[t], b, manifest[b])
  BY <1>1, <1>4, LeaseAssumption DEF Owner, Stamped
<1> QED
  BY <1>1, <1>2, <1>3, <1>4, AfterImageType DEF IInv, MemberInv

LEMMA MembersOwnNothingNext == IInv' => MembersOwnNothing'
  BY MemberOwnsNothing, PTL

LEMMA MemberWriteOwns ==
  ASSUME IInv, IInv', NEW b \in Batches, NEW t \in Tickets, Covers(b, t), manifest' = manifest,
         \A u \in Tickets \ {t} : ticket'[u] = ticket[u]
  PROVE  Owns' = Owns
<1>1. Covers(b, t)'
  BY DEF Covers, Declared
<1>2. Owner(t) = None
  BY MemberOwnsNothing DEF MembersOwnNothing
<1>3. MembersOwnNothing'
  BY MembersOwnNothingNext
<1>4. \A u \in (Tickets \cup Batches) \ {t} : Owner(u)' = Owner(u)
  BY LeaseAssumption DEF Owner, Declared
<1>5. Owner(t)' = None
  BY <1>1, <1>3 DEF MembersOwnNothing
<1> QED
  BY <1>2, <1>4, <1>5 DEF Owns

\* A manifest's state is no part of the ownership map.
LEMMA StateWriteOwns ==
  ASSUME IInv, NEW b \in Batches, NEW s \in {"active", "releasing"}, Declared(b), ticket' = ticket,
         manifest' = [manifest EXCEPT ![b] = [manifest[b] EXCEPT !.state = s]]
  PROVE  Owns' = Owns
<1>1. manifest \in [Batches -> Manifests \cup {None}] /\ manifest[b] \in Manifests
  BY DEF IInv, TypeOK, Declared
<1>2. manifest'[b] \in Manifests /\ manifest'[b].space = manifest[b].space
  BY <1>1 DEF Manifests
<1>3. Owner(b)' = Owner(b)
  BY <1>2, LeaseAssumption DEF Owner, Declared
<1>4. \A u \in (Tickets \cup Batches) \ {b} : Owner(u)' = Owner(u)
  BY <1>1, LeaseAssumption DEF Owner, Declared
<1> QED
  BY <1>3, <1>4 DEF Owns

LEMMA StepRefines ==
  ASSUME IInv, IInv', [Next]_vars
  PROVE  [Ownership!Next]_Owns
<1> DEFINE Claims == \E x \in Tickets \cup Batches, w \in Workspaces :
                       /\ \A y \in (Tickets \cup Batches) \ {x} : Owns[y] # None => ~Clash(w, Owns[y])
                       /\ Owns' = [Owns EXCEPT ![x] = w]
           GivesUp == \E x \in Tickets \cup Batches : Owns' = [Owns EXCEPT ![x] = None]
<1> SUFFICES Claims \/ GivesUp \/ Owns' = Owns
  BY DEF Ownership!Next, Ownership!Claim, Ownership!Free, Ownership!GiveUp, Owns
<1> USE DEF WriteTicket, WriteManifest
<1>1. ticket \in [Tickets -> Records] /\ manifest \in [Batches -> Manifests \cup {None}]
  BY DEF IInv, TypeOK
<1>2. ASSUME NEW b \in Batches, NEW t \in Tickets, Stamp(b, t) PROVE Owns' = Owns
  BY <1>1, <1>2, MemberWriteOwns DEF Stamp, Covers, InState
<1>3. ASSUME NEW b \in Batches, Activate(b) PROVE Owns' = Owns
  BY <1>3, StateWriteOwns DEF Activate, InState
<1>4. ASSUME NEW b \in Batches, NEW t \in Tickets, ClearMember(b, t) PROVE Owns' = Owns
  <2>1. task = [verb |-> "clear", batch |-> b, ticket |-> t] /\ task # None
    BY <1>4, LeaseAssumption DEF ClearMember, Going, Tasks
  <2>2. Covers(b, t)
    BY <2>1 DEF IInv, TaskInv
  <2> QED
    BY <1>1, <1>4, <2>2, MemberWriteOwns DEF ClearMember
<1>5. ASSUME NEW b \in Batches, NEW t \in Tickets, DropManifest(b, t) PROVE GivesUp
  <2>1. manifest'[b] = None /\ ticket' = ticket /\ \A a \in Batches \ {b} : manifest'[a] = manifest[a]
    BY <1>1, <1>5 DEF DropManifest
  <2>2. Owns' = [Owns EXCEPT ![b] = None]
    BY <2>1, OwnsOneBatch
  <2> QED
    BY <2>2
<1>6. ASSUME NEW c \in Runs, NEW t \in Tickets, NEW w \in Workspaces, NEW force \in BOOLEAN,
             TakeAlone(c, t, w, force)
      PROVE  Claims
  <2>1. PICK ends \in BOOLEAN : ticket' = [ticket EXCEPT ![t] = Held(ticket[t], c, w, ends)] /\ manifest' = manifest
    BY <1>6 DEF TakeAlone
  <2>2. ticket[t] \in Records /\ ticket[t].exists /\ ticket[t].batch = None /\ SpaceFree(t, w, None)
    BY <1>1, <1>6 DEF TakeAlone
  <2>3. ticket'[t] = Held(ticket[t], c, w, ends) /\ \A u \in Tickets \ {t} : ticket'[u] = ticket[u]
    BY <1>1, <2>1
  <2>4. ticket'[t].batch = None /\ ticket'[t].space = w
    BY <2>2, <2>3, HeldType
  <2>5. Owns' = [Owns EXCEPT ![t] = w]
    BY <2>1, <2>3, <2>4, OwnsOneTicket
  <2> QED
    BY <2>2, <2>5, FreeForTicket
<1>7. ASSUME NEW c \in Runs, NEW t \in Tickets, NEW b \in Batches, NEW force \in BOOLEAN,
             TakeMember(c, b, t, force)
      PROVE  Owns' = Owns
  BY <1>1, <1>7, MemberWriteOwns DEF TakeMember
<1>8. ASSUME NEW c \in Runs, NEW b \in Batches, NEW members \in SUBSET Tickets, NEW ends \in BOOLEAN,
             NEW t \in members, NEW w \in Workspaces, Declare(c, b, t, members, w, ends)
      PROVE  Claims
  <2> DEFINE m == [state |-> "pending", members |-> members, take |-> t,
                   ends |-> ends, space |-> w, run |-> c]
  <2>1. /\ manifest'[b] = m /\ m.space = w /\ m \in Manifests
        /\ ticket' = ticket /\ \A a \in Batches \ {b} : manifest'[a] = manifest[a]
    BY <1>1, <1>8 DEF Declare, Manifests
  <2> HIDE DEF m
  <2>2. m # None
    BY <2>1, LeaseAssumption
  <2>3. Owns' = [Owns EXCEPT ![b] = w]
    BY <2>1, <2>2, OwnsOneBatch
  <2>4. SpaceFree(t, w, b) /\ Unclaimed(ticket[t]) /\ t \in Tickets /\ \A u \in Tickets : ticket[u].batch # b
    BY <1>8 DEF Declare
  <2> QED
    BY <2>3, <2>4, FreeForBatch
<1>9. ASSUME NEW b \in Batches, NEW t \in Tickets, ReleaseMember(b, t) PROVE Owns' = Owns
  BY <1>9, StateWriteOwns DEF ReleaseMember, Covers
<1>10. ASSUME NEW t \in Tickets, ReleaseAlone(t) PROVE GivesUp
  <2>1. ticket' = [ticket EXCEPT ![t] = Released(ticket[t])] /\ manifest' = manifest
    BY <1>10 DEF ReleaseAlone
  <2>2. ticket'[t] = Released(ticket[t]) /\ \A u \in Tickets \ {t} : ticket'[u] = ticket[u]
    BY <1>1, <2>1
  <2>3. ticket'[t].space = None
    BY <1>1, <2>2, ReleasedType DEF Unclaimed
  <2> QED
    BY <2>1, <2>2, <2>3, OwnsOneTicket
<1>11. ASSUME NEW t \in Tickets, Delete(t) PROVE GivesUp
  <2>1. ticket'[t].space = None /\ manifest' = manifest /\ \A u \in Tickets \ {t} : ticket'[u] = ticket[u]
    BY <1>1, <1>11 DEF Delete, NewTicket
  <2> QED
    BY <2>1, OwnsOneTicket
<1>12. ASSUME NEW t \in Tickets, manifest' = manifest,
              \A u \in Tickets \ {t} : ticket'[u] = ticket[u],
              ticket'[t].batch = ticket[t].batch, ticket'[t].space = ticket[t].space
       PROVE  Owns' = Owns
  <2>1. \A x \in Tickets \cup Batches : Owner(x)' = Owner(x)
    BY <1>12, LeaseAssumption DEF Owner, Declared
  <2> QED
    BY <2>1 DEF Owns
<1>13. ASSUME NEW t \in Tickets, NEW c \in Runs, Rehold(c, t) PROVE Owns' = Owns
  <2>1. /\ ticket'[t] = [ticket[t] EXCEPT !.run = c] /\ ticket[t] \in Records
        /\ manifest' = manifest /\ \A u \in Tickets \ {t} : ticket'[u] = ticket[u]
    BY <1>1, <1>13 DEF Rehold
  <2>2. ticket'[t].batch = ticket[t].batch /\ ticket'[t].space = ticket[t].space
    BY <2>1 DEF Records
  <2> QED
    BY <1>12, <2>1, <2>2
<1>14. ASSUME NEW t \in Tickets, NEW terminal \in BOOLEAN, Update(t, terminal) PROVE Owns' = Owns
  <2>1. /\ ticket'[t] = [ticket[t] EXCEPT !.terminal = terminal] /\ ticket[t] \in Records
        /\ manifest' = manifest /\ \A u \in Tickets \ {t} : ticket'[u] = ticket[u]
    BY <1>1, <1>14 DEF Update
  <2>2. ticket'[t].batch = ticket[t].batch /\ ticket'[t].space = ticket[t].space
    BY <2>1 DEF Records
  <2> QED
    BY <1>12, <2>1, <2>2
<1>15. ASSUME UNCHANGED <<ticket, manifest>> PROVE Owns' = Owns
  BY <1>15 DEF Owns, Owner, Declared
<1>16. CASE (\E b \in Batches : Resume(b)) \/ ChangePolicy \/ Crash \/ UNCHANGED vars
  BY <1>15, <1>16 DEF Resume, ChangePolicy, Crash, vars
<1> HIDE DEF Claims, GivesUp
<1> QED
  BY <1>2, <1>3, <1>4, <1>5, <1>6, <1>7, <1>8, <1>9, <1>10, <1>11, <1>13, <1>14, <1>16
  DEF Next, Continue, Take, DeclareBatch

\* However many files a verb writes and wherever its process dies, workspaces are
\* claimed one at a time, when free, and given up one at a time.
THEOREM OwnershipRefined == Spec => ImplementsOwnership
<1>1. Init => Ownership!Init
  <2> SUFFICES ASSUME Init, NEW x \in Tickets \cup Batches PROVE Owner(x) = None
    BY DEF Ownership!Init
  <2> QED
    BY DEF Init, Owner, Declared, NewTicket
<1>2. IInv /\ IInv' /\ [Next]_vars => [Ownership!Next]_Owns
  BY StepRefines
<1> QED
  BY InitIInv, NextIInv, <1>1, <1>2, PTL DEF Spec, ImplementsOwnership, Ownership!Spec, Owns

===============================================================================
