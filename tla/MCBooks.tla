------------------------------ MODULE MCBooks ------------------------------
(* Instances of Books: behind the guard with each kind of drift; without it  *)
(* for the books that turn short and change sides, averaged with a drift and *)
(* without, and by lots.                                                     *)
EXTENDS Books

Setting(method, guarded, drift) ==
  [method |-> method, guarded |-> guarded, drift |-> drift]

EachDrift ==
  {NoDrift, [NoDrift EXCEPT !.qty = -2], [NoDrift EXCEPT !.qty = 1, !.avg = 10],
   [NoDrift EXCEPT !.avg = 10], [NoDrift EXCEPT !.realized = 100],
   [NoDrift EXCEPT !.unrealized = -100], [NoDrift EXCEPT !.fee = 100]}

MCSettings ==
  {Setting("AVERAGE", TRUE, drift) : drift \in EachDrift}
  \cup {Setting("AVERAGE", FALSE, drift) :
          drift \in {NoDrift, [NoDrift EXCEPT !.avg = 2, !.realized = 4]}}
  \cup {Setting("FIFO", FALSE, NoDrift)}

GuardedOnly == {Setting("AVERAGE", TRUE, NoDrift)}
=============================================================================
