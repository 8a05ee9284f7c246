----------------------------- MODULE MCListTabs -----------------------------
EXTENDS ListTabs, TLC
CONSTANTS loc, member, shoot, lens, light, h1, h2
Blank == [life |-> "live", status |-> "open", gear |-> {}, files |-> {}]
Unborn == [Blank EXCEPT !.life = "unborn"]
Scheduled == [Blank EXCEPT !.status = "scheduled"]
MCSeeds == {loc :> Blank @@ member :> Unborn @@ shoot :> Scheduled,
            loc :> Unborn @@ member :> Unborn
                @@ shoot :> [Scheduled EXCEPT !.life = "unborn"]}
=============================================================================
