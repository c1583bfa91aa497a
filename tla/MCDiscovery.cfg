SPECIFICATION Spec
CONSTANTS
    ana = ana
    bia = bia
    caio = caio
    g1 = g1
    g2 = g2
    None = None
    Users <- People
    Saves <- TwoSaves
    Ranges <- OlderOnly
    Gets <- TwoGets
    Viewers <- OnlyAna
    Shown <- Others
    Limit = 1
    Offsets <- FirstAndSecond
    Overlap = 1
    MaxClock = 5
SYMMETRY Symmetric
INVARIANTS TypeOK PagesAsTold SkipsExplained RepeatsExplained
PROPERTY IncompleteBySaveOnly
