----------------------------- MODULE MCTagStore -----------------------------
(***************************************************************************)
(* TagStore for TLC: the requests of each run.  Items i1 and i3 are one    *)
(* user's one URL, saved again; a and b are tags.                          *)
(***************************************************************************)
EXTENDS TagStore, TLC

CONSTANTS i1, i2, i3, a, b

Create(i, tags) == [kind |-> "create", item |-> i, tags |-> tags, own |-> TRUE]
Replace(i, tags) == [kind |-> "replace", item |-> i, tags |-> tags, own |-> TRUE]
Delete(i, own) == [kind |-> "delete", item |-> i, tags |-> <<>>, own |-> own]
Store(i) == [kind |-> "fetch", item |-> i, tags |-> <<>>, own |-> TRUE]
Claim == [kind |-> "claim", item |-> i1, tags |-> <<>>, own |-> TRUE]

MCItems == {i1, i2, i3}
MCTags == {a, b}
MCKeyOf == (i1 :> "k1") @@ (i2 :> "k2") @@ (i3 :> "k1")

\* Everything that can be asked of two items, one of them saved twice.
EditorOps ==
    {Create(i1, <<a>>), Create(i3, <<b>>), Create(i2, <<b, a>>),
     Replace(i1, <<b>>), Replace(i1, <<>>), Replace(i2, <<a>>),
     Delete(i1, TRUE), Delete(i2, TRUE), Delete(i1, FALSE),
     Store(i1), Store(i2), Claim}

\* Requests that meet on rows: tags in opposite orders, saves of one URL,
\* saves and sweeps of one tag, a delete and a claim against everything.
RaceOps ==
    {Create(i1, <<a, b>>), Create(i2, <<b, a>>), Create(i3, <<>>), Replace(i1, <<>>),
     Delete(i1, TRUE), Delete(i1, FALSE), Store(i1), Claim}

\* Two items and one tag, each edited by one request at a time.
SweepOps == {Create(i1, <<a>>), Create(i2, <<>>), Replace(i1, <<>>), Replace(i2, <<a>>)}

\* One tab deletes what another tab has deleted.
LeakOps == {Create(i1, <<a>>), Delete(i1, TRUE), Replace(i1, <<b>>)}
=============================================================================
