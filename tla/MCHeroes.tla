------------------------------- MODULE MCHeroes -------------------------------
(***************************************************************************)
(* Two drafts: one becomes a fighter or a dull wizard, one a learned       *)
(* wizard of either theme.                                                 *)
(***************************************************************************)
EXTENDS HeroesProperties, TLC

CONSTANTS d1, d2, industrial, gothic

Strong == [strength |-> 15, dexterity |-> 12, constitution |-> 14, intelligence |-> 8,
           wisdom |-> 13, charisma |-> 10]
Learned == [strength |-> 8, dexterity |-> 14, constitution |-> 10, intelligence |-> 15,
            wisdom |-> 13, charisma |-> 12]

Fighter ==
    [theme |-> industrial, class |-> [class |-> "fighter", style |-> "dueling"],
     assignment |-> Strong,
     background |-> [background |-> "soldier", skills |-> {"perception", "history"}],
     equipment |-> [carried |-> {"chain_mail", "longsword", "shield", "light_crossbow",
                                 "explorers_pack"},
                    simple |-> "none", armor |-> "chain_mail", shield |-> TRUE],
     prepared |-> {}]

Wizard ==
    [theme |-> industrial, class |-> [class |-> "wizard", style |-> "none"],
     assignment |-> Learned,
     background |-> [background |-> "sage", skills |-> {"insight", "medicine"}],
     equipment |-> [carried |-> {"simple_weapons", "scholars_pack", "spellbook",
                                 "arcane_focus"},
                    simple |-> "dagger", armor |-> "none", shield |-> FALSE],
     prepared |-> {"magic_missile", "shield", "sleep"}]

DullWizard == [Wizard EXCEPT !.assignment = Strong, !.prepared = {"sleep"}]
OtherTheme == [Wizard EXCEPT !.theme = gothic]

MCDrafts == {d1, d2}
MCOffers == [d \in MCDrafts |-> IF d = d1 THEN {Fighter, DullWizard} ELSE {Wizard, OtherTheme}]

\* A hero is created from either draft; one of the first draft is played, too.
MCMaxHeroRevision == [started \in SUBSET MCDrafts |-> IF started = {d1} THEN 3 ELSE 0]

MCSymmetry == Permutations(Servers)
=============================================================================
