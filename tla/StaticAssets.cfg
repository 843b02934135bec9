SPECIFICATION Spec
CONSTANTS
    Nil = Nil
    Missing = Missing
    Names <- MCNames
    Builds <- MCBuilds
    MaxDeploys = 2
INVARIANT
    PageOfOneBuild
PROPERTY
    CurrentPageComplete
