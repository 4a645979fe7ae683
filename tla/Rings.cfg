\* Up to four ways, with a direction, of ten shapes; up to three outer rings
\* and two holes, each drawn in three styles.
SPECIFICATION AssemblySpec
CONSTANTS
    Positions <- MCPositions
    AreaRelations <- MCRelations
INVARIANTS
    WaysConserved
    StuckMeansOdd
    PolygonsAreRight
