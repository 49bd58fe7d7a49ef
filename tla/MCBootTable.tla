----------------------------- MODULE MCBootTable -----------------------------
(* Small disks for BootTable: four links, words of 3 bits. *)
EXTENDS BootTable

Entry(s, a, n) == [sys |-> s, start |-> a, nr |-> n]
Table(e) == [entry |-> [i \in 0..3 |-> IF i + 1 \in DOMAIN e THEN e[i + 1] ELSE NoEntry],
             flag |-> TRUE]
Unflagged(t) == [t EXCEPT !.flag = FALSE]

X(a) == Entry("ext", a, 1)
D(a) == Entry("data", a, 1)

\* No extended partition, one, one behind a bad one, two, and no flag.
MCMbrTables == {Table(<<D(1)>>), Table(<<X(2), D(5)>>), Table(<<X(0), X(2), D(1)>>),
                Table(<<D(1), NoEntry, X(3), X(2)>>), NoTable}

\* A partition with and without a pointer, in either order, an empty link, an
\* empty last link with and without a type, two pointers, two partitions, and a
\* pointer without a size; a pointer of 0 leads back to the first link.
MCLinkTables == {Table(<<D(1)>>), Table(<<D(2), X(1)>>), Table(<<X(0), D(1)>>),
                 Table(<<X(2)>>), Table(<<X(1), X(2)>>), Table(<<D(1), D(2)>>),
                 Table(<<Entry("ext", 1, 0)>>), Table(<<Entry("data", 3, 0)>>),
                 Table(<<NoEntry, NoEntry, D(7), X(5)>>),
                 Unflagged(Table(<<Entry("none", 0, 1)>>)), Unflagged(NoTable)}
=============================================================================
