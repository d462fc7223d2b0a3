---------------------------- MODULE MCRecordFlow ----------------------------
(* A small instance of RecordFlow. *)
EXTENDS RecordFlow, TLC

CONSTANTS a, b, old, plan, board, f1, f2, d0

Item(c, value)  == [code |-> c, value |-> value]
Put(items)      == [kind |-> "Put", items |-> items]
Post(list)      == [kind |-> "Post", list |-> list]
Upload(files)   == [kind |-> "Upload", files |-> files]

\* The table has one code, so that lookups of others end at it or at the end.
MCTables == {2 :> old}

\* The tables have nothing in common: requests of one kind, and some of each.
MCMixes ==
    {{Put(<<Item(3, a), Item(1, a)>>), Put(<<Item(1, b), Item(2, a), Item(1, a)>>),
      Put(<<Item(3, b)>>), Put(<<Item(2, b), Item(4, b)>>)},
     {[kind |-> "Codes"]},
     {Post(plan), Post(board)},
     {Upload(<<f1, f2>>), [kind |-> "Hide"]},
     {Put(<<Item(3, b)>>), Post(plan), Upload(<<f1>>)}}

MCOldRows == {<<plan, None>>}
=============================================================================
