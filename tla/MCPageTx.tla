------------------------------ MODULE MCPageTx -------------------------------
(* Names are short and hashes small, so that they collide, overflow and    *)
(* come out as 0 as the program's 31-bit hashes of long names may.         *)
EXTENDS PageTx, TLC

alice == <<1>>
bob   == <<2>>
carol == <<9>>      \* has the HashID of alice
dave  == <<3, 5>>   \* overflows while it is hashed
eve   == <<8>>      \* has the HashID 0

Moved(by) == [author |-> by, created |-> "parses", items |-> <<"assignee", "status">>]
Undated(by) == [author |-> by, created |-> "", items |-> <<"status">>]
Issue(id, creator, assignee, histories) ==
  [id |-> id, creator |-> creator, assignee |-> assignee, histories |-> histories]

MCPages ==
  { << Issue(1, alice, bob, <<Moved(alice), Moved(bob)>>) >>,
    << Issue(2, bob, Anonymous, <<>>), Issue(1, alice, bob, <<Moved(dave)>>) >>,
    << Issue(3, carol, dave, <<Moved(carol), Undated(bob)>>) >>,
    << Issue(1, eve, eve, <<>>), Issue(4, Anonymous, alice, <<>>) >>,
    << Issue(5, dave, alice, <<Moved(Anonymous)>>) >>,
    << Issue(2, alice, bob, <<Moved(eve)>>), Issue(Null, bob, bob, <<>>) >>,
    << >> }
=============================================================================
