----------------------------- MODULE MCJoinPaths -----------------------------
(* People with emails and a company; emails with contents and, again, their*)
(* person.  All primary keys but the one of a company are called "Id", and *)
(* a content has a regular column with the name of a company's key.        *)
EXTENDS JoinPaths

MCLeftOf == [emails |-> "Person", company |-> "Person",
             contents |-> "Email", sender |-> "Email", owner |-> "Company"]
MCRightOf == [emails |-> "Email", company |-> "Company",
              contents |-> "Content", sender |-> "Person", owner |-> "Person"]
MCColumnsOf == [Person  |-> <<"Id", "Name">>,
                Email   |-> <<"Id", "Address", "Name">>,
                Content |-> <<"Id", "CompanyKey">>,
                Company |-> <<"CompanyKey", "Name">>]

(* Partial data with the primary key in front.                             *)
MCKeyFirst ==
  [e \in DOMAIN MCColumnsOf |->
     {<<MCColumnsOf[e][1]>>, MCColumnsOf[e], <<MCColumnsOf[e][1], Last(MCColumnsOf[e])>>}]
=============================================================================
