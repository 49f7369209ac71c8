------------------------------ MODULE MCInflate ------------------------------
EXTENDS Inflate
MCLenBase == <<2, 3>>
MCLenExtra == <<0, 1>>
MCDistBase == <<1, 2, 3>>
MCDistExtra == <<0, 0, 1>>
MCOrder == <<5, 6, 7, 0, 3, 2, 4, 1>>
MCFixed == <<3, 3, 4, 4, 2, 3, 3, 3>>
MCRepeats == <<<<2, 1>>, <<2, 1>>, <<4, 1>>>>

Lits(s) == [i \in DOMAIN s |-> <<"lit", s[i]>>]
StoredOf(s) == [kind |-> "stored", ops |-> Lits(s)]
FixedOf(ops) == [kind |-> "fixed", ops |-> ops]
\* nlen 7: literals 0..3, the end, two lengths; three distances.
DynOf(ops) == [kind |-> "dynamic", ops |-> ops, nlen |-> 7, cl |-> <<2, 0, 3, 2, 3, 3, 3, 0>>,
               items |-> <<<<"len", 2>>, <<"rep", 2, 2>>, <<"len", 2>>, <<"len", 2>>, <<"len", 3>>, <<"rep", 1, 2>>,
                           <<"len", 0>>, <<"len", 2>>>>]
Member(flags, blocks) == [flags |-> flags, blocks |-> blocks]
Ops1 == Lits(<<0, 3, 1>>) \o <<<<"copy", 4, 2>>, <<"copy", 3, 4>>, <<"lit", 2>>>>
Ops2 == Lits(<<3>>) \o <<<<"copy", 2, 1>>, <<"copy", 4, 3>>>>
MCScripts == {<<Member(f, <<b>>)>> : f \in {0, 3, 14}, b \in {StoredOf(<<1, 2, 3, 0, 1>>), FixedOf(Ops1)}}
        \cup {<<Member(0, <<FixedOf(Ops1), StoredOf(<<2, 1>>), DynOf(Ops2)>>)>>,
              <<Member(1, <<StoredOf(<<>>)>>), Member(10, <<FixedOf(Lits(<<1>>)), FixedOf(Ops2)>>)>>}
\* A code that takes more than there is, one without an end, a distance
\* before the start, and all short streams behind a good header.
Over(lens) == [kind |-> "dynamic", ops |-> Lits(<<0>>), nlen |-> 5, cl |-> <<2, 2, 2, 2, 0, 0, 0, 0>>,
               items |-> [i \in DOMAIN lens |-> <<"len", lens[i]>>]]
Far == FixedOf(Lits(<<1>>) \o <<<<"copy", 2, 2>>, <<"copy", 4, 1>>>>)
MCOther == {HeaderBits(0) \o s : s \in [1..10 -> {0, 1}]}
       \cup {BlockBits(HeaderBits(0), b, TRUE) :
                b \in {Over(<<1, 1, 0, 0, 2, 1>>), Over(<<1, 1, 0, 0, 0, 1>>), Over(<<1, 2, 0, 0, 2, 1>>), Far}}
==============================================================================
