--------------------------- MODULE MCMenuBuilder ---------------------------
(* Instances of MenuBuilder: two lists fit, of one or two tests with every *)
(* kind of parameter, and a file manager may ask for more than fit beside  *)
(* those loaded before.                                                    *)
EXTENDS MenuBuilder

Ram  == [name |-> "ram", parms |-> <<"bare">>, size |-> 2,
         pass |-> "next", fail |-> "stop"]
Fpga == [name |-> "fpga", parms |-> <<"parm", "nosvc">>, size |-> 1,
         pass |-> "next", fail |-> "stop"]
Hub  == [name |-> "hub", parms |-> <<"open", "reg">>, size |-> 1,
         pass |-> "next", fail |-> "next"]

MCContents == [ram |-> <<Ram>>, tcm |-> <<Fpga, Hub>>]

MCImage ==
  [ram |-> <<[kind |-> "list", tests |-> 1, size |-> 2],
             [kind |-> "test", test |-> Ram], [kind |-> "payload"]>>,
   tcm |-> <<[kind |-> "list", tests |-> 2, size |-> 2],
             [kind |-> "test", test |-> Fpga],
             [kind |-> "test", test |-> Hub]>>]

(* They are what the host tools make of these arguments.                   *)
ASSUME MCContents =
  [ram |-> mklist(<< [opt |-> "file", test |-> mktest("ram", <<"empty31">>, 1)] >>),
   tcm |-> mklist(<< [opt |-> "file", test |-> mktest("fpga", <<"parm", "nosvc">>, 0)],
                     [opt |-> "fail", word |-> "next"],
                     [opt |-> "file", test |-> mktest("hub", <<"reg31", "reg">>, 0)] >>)]

(* A manager that ends with default.tls, as the stock ones do, and one     *)
(* whose last item the operator has edited.                                *)
MCManagers == {"stock", "edited"}
MCItems ==
  [stock  |-> <<"RUN", "ram", "default.tls">>,
   edited |-> <<"RUN", "tcm", "ram">>]
=============================================================================
